---- MODULE Spec2Model ----
(***************************************************************************)
(* The orderbook settlement state machine of                               *)
(* orderbook-contract/src/lib.rs: the ledger, the intent and sub-intent    *)
(* stores, the transition expectations, the pending withdrawals, and the   *)
(* external requests (signer, light client) whose callbacks are in flight. *)
(* Every handler runs as one atomic step; a panic inside a handler aborts  *)
(* the call and none of its writes persist.                                *)
(***************************************************************************)
EXTENDS Integers, Sequences, FiniteSets, Bags, TLC

\* ------------------------------------------------------------------ bounds

\* Width, in bits, of the unsigned amount type (u128 in the source), scaled down.
AmountBits == 3
\* Ids are allocated while next_id stays at most MaxId.
MaxId == 4
\* Number of deposit calls (deposit_for, verify_mpc_deposit) explored.
MaxDeposits == 2
\* Width in bits of an index (u64 in the source), scaled down.
IndexBits == 3

\* ------------------------------------------------------- integer arithmetic

Pow2(n) == 2 ^ n
U128Max == Pow2(AmountBits) - 1
I128Max == Pow2(AmountBits - 1) - 1
I128Min == 0 - Pow2(AmountBits - 1)

\* The result of an arithmetic operation whose overflow either panics (a build
\* with overflow checks) or wraps (a build without them).
Value(v) == [panic |-> FALSE, val |-> v]
Panic == [panic |-> TRUE, val |-> 0]

WrapU128(x) == x % Pow2(AmountBits)
WrapI128(x) == ((x - I128Min) % Pow2(AmountBits)) + I128Min

\* `a + b` and `a * b` on u128.
AddU128(a, b, checks) ==
    IF a + b <= U128Max THEN Value(a + b)
    ELSE IF checks THEN Panic ELSE Value(WrapU128(a + b))
MulU128(a, b, checks) ==
    IF a * b <= U128Max THEN Value(a * b)
    ELSE IF checks THEN Panic ELSE Value(WrapU128(a * b))

\* `x as i128` for a u128 x: a two's-complement reinterpretation, never a panic.
AsI128(x) == IF x > I128Max THEN x - Pow2(AmountBits) ELSE x

\* `a + b` and `a - b` on i128.
AddI128(a, b, checks) ==
    IF a + b >= I128Min /\ a + b <= I128Max THEN Value(a + b)
    ELSE IF checks THEN Panic ELSE Value(WrapI128(a + b))
SubI128(a, b, checks) ==
    IF a - b >= I128Min /\ a - b <= I128Max THEN Value(a - b)
    ELSE IF checks THEN Panic ELSE Value(WrapI128(a - b))

\* ------------------------------------------------------------- input sets

Owner == "owner"
Accounts == {"owner", "alice", "bob"}
Makers == {"alice", "bob"}
Solvers == {"bob"}
\* The asset strings in use; "eth" is another spelling of "ETH".
Assets == {"ETH", "SOL", "eth"}
ChainType == {"BTC", "ETH", "SOL"}
ChainInputs == {"ETH"}
RetryChainInputs == {"ETH"}

\* The intents the makers post: alice sells ETH for SOL, bob sells SOL for ETH.
IntentInputs ==
    {[maker |-> "alice", src_asset |-> "ETH", src_amount |-> 1, dst_asset |-> "SOL", dst_amount |-> 1],
     [maker |-> "alice", src_asset |-> "ETH", src_amount |-> 2, dst_asset |-> "SOL",
      dst_amount |-> Pow2(AmountBits - 1)],
     [maker |-> "bob", src_asset |-> "SOL", src_amount |-> 2, dst_asset |-> "ETH", dst_amount |-> 2]}
\* The deposits made and the withdrawals asked for.
DepositInputs ==
    {[user |-> "alice", asset |-> "ETH", amount |-> Pow2(AmountBits - 1)],
     [user |-> "bob", asset |-> "SOL", amount |-> 2]}
WithdrawInputs ==
    {[user |-> "alice", asset |-> "ETH", amount |-> Pow2(AmountBits - 1)],
     [user |-> "bob", asset |-> "SOL", amount |-> 1]}

FillAmounts == {1, 2}
GetAmounts == {1, U128Max}

Ids == 0 .. (MaxId - 1)

\* ------------------------------------------------------------------ state

VARIABLES
    balances,                 \* AccountId -> (asset -> u128), users with a record
    intents,                  \* id -> Intent
    sub_intents,              \* id -> SubIntent
    transition_expectations,  \* id -> TransitionExpectation
    pending_withdrawals,      \* id -> PendingWithdrawal
    next_id,                  \* the id counter
    inflight,                 \* bag of external requests whose callback is pending
    overflow_checks,          \* whether the build panics on integer overflow
    finalized_heights,        \* the light client's chain -> finalized height
    origin,                   \* history: which operation allocated each id
    deposits,                 \* history: number of deposit calls made
    ledger_supply,            \* history: per asset, the amounts credited by deposits less
                              \* those of the withdrawals whose signing succeeded
    last                      \* history: the handler that ran last, and its outcome

contract == <<balances, intents, sub_intents, transition_expectations,
              pending_withdrawals, next_id>>
vars == <<balances, intents, sub_intents, transition_expectations,
          pending_withdrawals, next_id, inflight, overflow_checks,
          finalized_heights, origin, deposits, ledger_supply, last>>

EmptyMap == [x \in {} |-> 0]
NoMatches == <<>>

\* m with key k set to v (UnorderedMap::insert), and with key k removed.
Insert(m, k, v) == [x \in (DOMAIN m) \cup {k} |-> IF x = k THEN v ELSE m[x]]
Remove(m, k) == [x \in (DOMAIN m) \ {k} |-> m[x]]

\* The outcome recorded for a handler.
NoId == 0 - 1
Outcome(op, ok, caller, id, result, reason, matches) ==
    [op |-> op, ok |-> ok, caller |-> caller, id |-> id, result |-> result,
     reason |-> reason, matches |-> matches]
Rejected(op, reason) == Outcome(op, FALSE, "-", NoId, "-", reason, NoMatches)

\* get_balance: 0 for a user or an asset never credited.
get_balance(bals, user, asset) ==
    IF user \in DOMAIN bals THEN bals[user][asset] ELSE 0

ZeroBalances == [a \in Assets |-> 0]

\* The balance table with (user, asset) set to amount, creating the user's
\* record on first use.
SetBalance(bals, user, asset, amount) ==
    LET rec == IF user \in DOMAIN bals THEN bals[user] ELSE ZeroBalances
    IN Insert(bals, user, [rec EXCEPT ![asset] = amount])

\* internal_transfer: credit amount to (user, asset); cur + amount may overflow.
internal_transfer(bals, user, asset, amount, checks) ==
    LET sum == AddU128(get_balance(bals, user, asset), amount, checks)
    IN IF sum.panic THEN [panic |-> TRUE, balances |-> bals]
       ELSE [panic |-> FALSE, balances |-> SetBalance(bals, user, asset, sum.val)]

\* `let id = self.next_id; self.next_id += 1;`: the counter after an allocation.
\* The counter is a u64; no run makes the 2^64 calls that would wrap it.
AllocateIdReuse(nid) == nid
AllocateId(nid) == nid + 1

\* ------------------------------------------------------------------ Init

Init ==
    /\ balances = EmptyMap
    /\ intents = EmptyMap
    /\ sub_intents = EmptyMap
    /\ transition_expectations = EmptyMap
    /\ pending_withdrawals = EmptyMap
    /\ next_id = 0
    /\ inflight = EmptyBag
    /\ overflow_checks \in BOOLEAN
    /\ finalized_heights = EmptyMap
    /\ origin = EmptyMap
    /\ deposits = 0
    /\ ledger_supply = [a \in Assets |-> 0]
    /\ last = Outcome("new", TRUE, Owner, NoId, "-", "-", NoMatches)

\* A handler that panics is aborted and none of its writes persist: the value a
\* store holds after a call is the written one only when the call did not panic.
PersistAlways(ok, before, after) == after
Persist(ok, before, after) == IF ok THEN after ELSE before

\* An external request in flight: kind "sign" (callback on_signed), "payment"
\* (on_proof_verified), "transition" (on_transition_verified) or "deposit"
\* (on_mpc_deposit_verified), with the arguments bound into its callback.
Request(kind, id, chain_type, user, asset, amount) ==
    [kind |-> kind, id |-> id, chain_type |-> chain_type, user |-> user,
     asset |-> asset, amount |-> amount]
SignRequest(id, chain_type) == Request("sign", id, chain_type, "-", "-", 0)
\* The payment request carries the expected_asset and expected_amount handed to
\* the light client.
PaymentRequest(id, chain_type, expected_asset, expected_amount) ==
    Request("payment", id, chain_type, "-", expected_asset, expected_amount)
TransitionRequest(id) == Request("transition", id, "-", "-", "-", 0)
DepositRequest(user, asset, amount) == Request("deposit", NoId, "-", user, asset, amount)

Dispatch(reqs, r) == reqs (+) SetToBag({r})
DeliverAndKeep(reqs, r) == reqs
Deliver(reqs, r) == reqs (-) SetToBag({r})

\* format!("transition:sub:{}", id), format!("sub:{}", id) and
\* format!("mpc:deposit:{}:{}", user, asset).
TransitionMemo(id) == <<"transition:sub:", id>>
PaymentMemo(id) == <<"sub:", id>>
DepositMemo(user, asset) == <<"mpc:deposit:", user, ":", asset>>

\* ------------------------------------------------------------- deposit_for

\* The history of what entered and left the ledger: amount more of asset.
Entered(total, asset, amount) == [total EXCEPT ![asset] = @ + amount]

deposit_for(caller, user, asset, amount) ==
    /\ deposits < MaxDeposits
    /\ LET credit == internal_transfer(balances, user, asset, amount, overflow_checks)
           ok == caller = Owner /\ ~credit.panic
       IN /\ balances' = Persist(ok, balances, credit.balances)
          /\ deposits' = IF ok THEN deposits + 1 ELSE deposits
          /\ ledger_supply' = Persist(ok, ledger_supply, Entered(ledger_supply, asset, amount))
          /\ last' = IF ok THEN Outcome("deposit_for", TRUE, caller, NoId, "-", "-", NoMatches)
                     ELSE Rejected("deposit_for", IF caller = Owner THEN "overflow" ELSE "not_owner")
    /\ UNCHANGED <<intents, sub_intents, transition_expectations, pending_withdrawals,
                   next_id, inflight, overflow_checks, finalized_heights, origin>>

\* ------------------------------------- verify_mpc_deposit and its callback

verify_mpc_deposit(user, asset, amount, memo) ==
    /\ deposits < MaxDeposits
    /\ LET ok == memo = DepositMemo(user, asset)
       IN /\ inflight' = Persist(ok, inflight, Dispatch(inflight, DepositRequest(user, asset, amount)))
          /\ deposits' = IF ok THEN deposits + 1 ELSE deposits
          /\ last' = IF ok THEN Outcome("verify_mpc_deposit", TRUE, user, NoId, "-", "-", NoMatches)
                     ELSE Rejected("verify_mpc_deposit", "memo_mismatch")
    /\ UNCHANGED <<balances, intents, sub_intents, transition_expectations,
                   pending_withdrawals, next_id, overflow_checks, finalized_heights, origin,
                   ledger_supply>>

\* verify_result is Ok(true), Ok(false) or Err: unwrap_or(false).
on_mpc_deposit_verified(r, verify_result) ==
    /\ r.kind = "deposit" /\ BagIn(r, inflight)
    /\ LET is_valid == verify_result = "OkTrue"
           credit == internal_transfer(balances, r.user, r.asset, r.amount, overflow_checks)
           ok == is_valid /\ ~credit.panic
       IN /\ balances' = Persist(ok, balances, credit.balances)
          /\ ledger_supply' = Persist(ok, ledger_supply, Entered(ledger_supply, r.asset, r.amount))
          /\ last' = IF ok
                     THEN Outcome("on_mpc_deposit_verified", TRUE, r.user, NoId, verify_result, "-", NoMatches)
                     ELSE Outcome("on_mpc_deposit_verified", FALSE, r.user, NoId, verify_result,
                                  IF is_valid THEN "overflow" ELSE "invalid_proof", NoMatches)
    /\ inflight' = Deliver(inflight, r)
    /\ UNCHANGED <<intents, sub_intents, transition_expectations, pending_withdrawals,
                   next_id, overflow_checks, finalized_heights, origin, deposits>>

\* ------------------------------------------------------------- make_intent

\* The Intent make_intent stores: nothing filled, Open.
IntentPrefilled(maker, src_asset, src_amount, dst_asset, dst_amount) ==
    [maker |-> maker, src_asset |-> src_asset, src_amount |-> src_amount,
     filled_amount |-> src_amount, dst_asset |-> dst_asset, dst_amount |-> dst_amount,
     status |-> "Open"]
Intent(maker, src_asset, src_amount, dst_asset, dst_amount) ==
    [maker |-> maker, src_asset |-> src_asset, src_amount |-> src_amount,
     filled_amount |-> 0, dst_asset |-> dst_asset, dst_amount |-> dst_amount,
     status |-> "Open"]

make_intent(maker, src_asset, src_amount, dst_asset, dst_amount) ==
    /\ next_id < MaxId
    /\ LET found == maker \in DOMAIN balances
           current == get_balance(balances, maker, src_asset)
           ok == found /\ current >= src_amount
           id == next_id
           intent == Intent(maker, src_asset, src_amount, dst_asset, dst_amount)
       IN IF ok
          THEN /\ balances' = SetBalance(balances, maker, src_asset, current - src_amount)
               /\ next_id' = AllocateId(next_id)
               /\ intents' = Insert(intents, id, intent)
               /\ origin' = Insert(origin, id, "make_intent")
               /\ last' = Outcome("make_intent", TRUE, maker, id, "-", "-", NoMatches)
          ELSE /\ UNCHANGED <<balances, next_id, intents, origin>>
               /\ last' = Rejected("make_intent",
                                   IF found THEN "insufficient_balance" ELSE "user_not_found")
    /\ UNCHANGED <<sub_intents, transition_expectations, pending_withdrawals, inflight,
                   overflow_checks, finalized_heights, deposits, ledger_supply>>

\* ------------------------------------------------------------- take_intent

\* filled_amount increased by amount, Filled when it reaches src_amount.
FillNothing(intent, amount) == intent
Fill(intent, amount) ==
    LET filled == intent.filled_amount + amount
    IN [intent EXCEPT !.filled_amount = filled,
                      !.status = IF filled = intent.src_amount THEN "Filled" ELSE intent.status]

SubIntent(parent, taker, amount, status) ==
    [parent_intent_id |-> parent, taker |-> taker, amount |-> amount, status |-> status]

take_intent(taker, intent_id, amount) ==
    /\ next_id < MaxId
    /\ LET found == intent_id \in DOMAIN intents
           open == found /\ intents[intent_id].status # "Filled"
           ok == open /\ amount <= intents[intent_id].src_amount - intents[intent_id].filled_amount
           sub_id == next_id
       IN IF ok
          THEN /\ intents' = Insert(intents, intent_id, Fill(intents[intent_id], amount))
               /\ next_id' = AllocateId(next_id)
               /\ sub_intents' = Insert(sub_intents, sub_id, SubIntent(intent_id, taker, amount, "Taken"))
               /\ origin' = Insert(origin, sub_id, "take_intent")
               /\ last' = Outcome("take_intent", TRUE, taker, sub_id, "-", "-", NoMatches)
          ELSE /\ UNCHANGED <<intents, next_id, sub_intents, origin>>
               /\ last' = Rejected("take_intent",
                                   IF ~found THEN "intent_not_found"
                                   ELSE IF ~open THEN "already_filled" ELSE "exceeds_remaining")
    /\ UNCHANGED <<balances, transition_expectations, pending_withdrawals, inflight,
                   overflow_checks, finalized_heights, deposits, ledger_supply>>

\* ----------------------------------------------------- batch_match_intents

MatchParams(intent_id, fill_amount, get_amount, transition_chain_type) ==
    [intent_id |-> intent_id, fill_amount |-> fill_amount, get_amount |-> get_amount,
     transition_chain_type |-> transition_chain_type]

TransitionExpectationNoAmount(chain_type, expected_asset, expected_amount, sub_id) ==
    [chain_type |-> chain_type, expected_asset |-> expected_asset,
     expected_amount |-> 0, expected_memo |-> TransitionMemo(sub_id)]
TransitionExpectation(chain_type, expected_asset, expected_amount, sub_id) ==
    [chain_type |-> chain_type, expected_asset |-> expected_asset,
     expected_amount |-> expected_amount, expected_memo |-> TransitionMemo(sub_id)]

\* The handler's working state while it runs over the legs: the stores as
\* written so far, the asset_balance map, the sub_ids vector, and whether (and
\* at which leg, why) it has panicked.
Working(bals, ints, subs, exps, nid) ==
    [panic |-> FALSE, reason |-> "-", leg |-> 0, balances |-> bals, intents |-> ints,
     sub_intents |-> subs, transition_expectations |-> exps, next_id |-> nid,
     asset_balance |-> EmptyMap, sub_ids |-> <<>>]
Fail(w, reason, leg) == [w EXCEPT !.panic = TRUE, !.reason = reason, !.leg = leg]

\* *asset_balance.get(asset).unwrap_or(&0)
NetOf(asset_balance, asset) ==
    IF asset \in DOMAIN asset_balance THEN asset_balance[asset] ELSE 0

\* The price check of one leg: lhs >= rhs over the u128 products.
PriceCheck(m, intent, checks) ==
    LET lhs == MulU128(m.get_amount, intent.src_amount, checks)
        rhs == MulU128(m.fill_amount, intent.dst_amount, checks)
    IN IF lhs.panic \/ rhs.panic THEN "overflow"
       ELSE IF lhs.val >= rhs.val THEN "ok" ELSE "price_mismatch"

\* The supply/demand tracking of one leg over the i128 map.
TrackSupplyDemand(asset_balance, m, intent, checks) ==
    LET supply == NetOf(asset_balance, intent.src_asset)
        plus == AddI128(supply, AsI128(m.fill_amount), checks)
        ab1 == Insert(asset_balance, intent.src_asset, plus.val)
        demand == NetOf(ab1, intent.dst_asset)
        minus == SubI128(demand, AsI128(m.get_amount), checks)
    IN [panic |-> plus.panic \/ minus.panic,
        asset_balance |-> Insert(ab1, intent.dst_asset, minus.val)]

\* One iteration of `for m in &matches`, leg being its 1-based position.
MatchLeg(w, m, leg, solver, checks) ==
    IF m.intent_id \notin DOMAIN w.intents THEN Fail(w, "intent_not_found", leg)
    ELSE
      LET intent_id == m.intent_id
          intent == w.intents[intent_id]
          remaining_src == intent.src_amount - intent.filled_amount
          price == PriceCheck(m, intent, checks)
          track == TrackSupplyDemand(w.asset_balance, m, intent, checks)
          sub_id == w.next_id
          credit == internal_transfer(w.balances, intent.maker, intent.dst_asset,
                                      m.get_amount, checks)
      IN IF intent.status # "Open" THEN Fail(w, "intent_not_open", leg)
         ELSE IF ~(m.fill_amount <= remaining_src) THEN Fail(w, "exceeds_remaining", leg)
         ELSE IF price # "ok" THEN Fail(w, price, leg)
         ELSE IF track.panic THEN Fail(w, "overflow", leg)
         ELSE IF credit.panic THEN Fail(w, "overflow", leg)
         ELSE [w EXCEPT
                 !.asset_balance = track.asset_balance,
                 !.intents = Insert(w.intents, intent_id, Fill(intent, m.fill_amount)),
                 !.next_id = AllocateId(sub_id),
                 !.sub_intents = Insert(w.sub_intents, sub_id,
                                        SubIntent(intent_id, solver, m.fill_amount, "Verifying")),
                 !.sub_ids = Append(w.sub_ids, sub_id),
                 !.transition_expectations =
                     Insert(w.transition_expectations, sub_id,
                            TransitionExpectation(m.transition_chain_type, intent.src_asset,
                                                  m.fill_amount, sub_id)),
                 !.balances = credit.balances]

RECURSIVE RunLegs(_, _, _, _, _)
RunLegs(w, matches, leg, solver, checks) ==
    IF w.panic \/ leg > Len(matches) THEN w
    ELSE RunLegs(MatchLeg(w, matches[leg], leg, solver, checks), matches, leg + 1,
                 solver, checks)

\* Verify solvency: every entry of asset_balance is >= 0.
Solvent(asset_balance) == \A a \in DOMAIN asset_balance : asset_balance[a] >= 0

\* The whole handler up to the dispatch of the signer requests.
RunBatchOfAnyLength(w0, matches, solver, checks) ==
    IF Len(matches) < 2 THEN Fail(w0, "too_few", 0)
    ELSE LET w == RunLegs(w0, matches, 1, solver, checks)
         IN IF w.panic THEN w
            ELSE IF ~Solvent(w.asset_balance) THEN Fail(w, "insufficient_supply", Len(matches) + 1)
            ELSE w
RunBatch(w0, matches, solver, checks) ==
    IF Len(matches) < 2 THEN Fail(w0, "too_few", 0)
    ELSE IF Len(matches) > 6 THEN Fail(w0, "too_many", 0)
    ELSE LET w == RunLegs(w0, matches, 1, solver, checks)
         IN IF w.panic THEN w
            ELSE IF ~Solvent(w.asset_balance) THEN Fail(w, "insufficient_supply", Len(matches) + 1)
            ELSE w

\* One signer request per sub-intent, the i-th carrying sub_ids[i] and the
\* i-th leg's transition_chain_type.
SignRequests(sub_ids, matches) ==
    LET reqs == {SignRequest(sub_ids[i], matches[i].transition_chain_type) :
                   i \in 1 .. Len(sub_ids)}
    IN [r \in reqs |->
          Cardinality({i \in 1 .. Len(sub_ids) :
                         SignRequest(sub_ids[i], matches[i].transition_chain_type) = r})]

batch_match_intents(solver, matches) ==
    /\ Len(matches) \notin 2 .. 6 \/ next_id + Len(matches) <= MaxId
    /\ \E w \in {RunBatch(Working(balances, intents, sub_intents,
                                   transition_expectations, next_id),
                           matches, solver, overflow_checks)} :
       LET ok == ~w.panic
       IN /\ balances' = Persist(ok, balances, w.balances)
          /\ intents' = Persist(ok, intents, w.intents)
          /\ sub_intents' = Persist(ok, sub_intents, w.sub_intents)
          /\ transition_expectations' =
                 Persist(ok, transition_expectations, w.transition_expectations)
          /\ next_id' = Persist(ok, next_id, w.next_id)
          /\ inflight' = Persist(ok, inflight, inflight (+) SignRequests(w.sub_ids, matches))
          /\ origin' = IF ok
                       THEN [x \in (DOMAIN origin) \cup (next_id .. (w.next_id - 1)) |->
                               IF x \in DOMAIN origin THEN origin[x]
                               ELSE "batch_match_intents"]
                       ELSE origin
          /\ last' = IF ok
                     THEN Outcome("batch_match_intents", TRUE, solver, next_id, "-", "-", matches)
                     ELSE Outcome("batch_match_intents", FALSE, solver, w.leg, "-", w.reason,
                                  NoMatches)
    /\ UNCHANGED <<pending_withdrawals, overflow_checks, finalized_heights, deposits, ledger_supply>>

\* ---------------------------------------------------------- retry_settlement

\* assert_eq!(sub.status, IntentStatus::Taken): the status a retry needs.
RetryInAnyStatus(sub) == TRUE
RetryStatus(sub) == sub.status = "Taken"

retry_settlement(caller, sub_intent_id, transition_chain_type) ==
    /\ LET found == sub_intent_id \in DOMAIN sub_intents
           taken == found /\ RetryStatus(sub_intents[sub_intent_id])
           ok == taken /\ sub_intents[sub_intent_id].taker = caller
                       /\ sub_intents[sub_intent_id].parent_intent_id \in DOMAIN intents
       IN IF ok
          THEN LET sub == sub_intents[sub_intent_id]
                   parent == intents[sub.parent_intent_id]
               IN /\ sub_intents' = Insert(sub_intents, sub_intent_id,
                                           [sub EXCEPT !.status = "Verifying"])
                  /\ transition_expectations' =
                         Insert(transition_expectations, sub_intent_id,
                                TransitionExpectation(transition_chain_type, parent.src_asset,
                                                      sub.amount, sub_intent_id))
                  /\ inflight' = Dispatch(inflight, SignRequest(sub_intent_id, transition_chain_type))
                  /\ last' = Outcome("retry_settlement", TRUE, caller, sub_intent_id, "-", "-",
                                     NoMatches)
          ELSE /\ UNCHANGED <<sub_intents, transition_expectations, inflight>>
               /\ last' = Rejected("retry_settlement",
                                   IF ~found THEN "sub_intent_not_found"
                                   ELSE IF ~taken THEN "not_taken" ELSE "not_taker")
    /\ UNCHANGED <<balances, intents, pending_withdrawals, next_id, overflow_checks, finalized_heights, origin,
                   deposits, ledger_supply>>

\* ------------------------------------- submit_payment_proof and its callback

\* sub.amount.checked_mul(parent.dst_amount).expect("amount overflow") / parent.src_amount;
\* a division by zero panics.
ExpectedPaymentWrapping(sub, parent) ==
    IF parent.src_amount = 0 THEN Panic
    ELSE Value(WrapU128(sub.amount * parent.dst_amount) \div parent.src_amount)
ExpectedPayment(sub, parent) ==
    IF sub.amount * parent.dst_amount > U128Max \/ parent.src_amount = 0 THEN Panic
    ELSE Value((sub.amount * parent.dst_amount) \div parent.src_amount)

submit_payment_proof(sub_intent_id, memo, transition_chain_type) ==
    /\ LET found == sub_intent_id \in DOMAIN sub_intents
           taken == found /\ sub_intents[sub_intent_id].status = "Taken"
           priced == taken /\ ~ExpectedPayment(sub_intents[sub_intent_id],
                                 intents[sub_intents[sub_intent_id].parent_intent_id]).panic
           ok == priced /\ memo = PaymentMemo(sub_intent_id)
       IN IF ok
          THEN /\ sub_intents' = Insert(sub_intents, sub_intent_id,
                                        [sub_intents[sub_intent_id] EXCEPT !.status = "Verifying"])
               /\ inflight' =
                      LET sub == sub_intents[sub_intent_id]
                          parent == intents[sub.parent_intent_id]
                      IN Dispatch(inflight,
                                  PaymentRequest(sub_intent_id, transition_chain_type,
                                                 parent.dst_asset,
                                                 ExpectedPayment(sub, parent).val))
               /\ last' = Outcome("submit_payment_proof", TRUE, "-", sub_intent_id, "-", "-",
                                  NoMatches)
          ELSE /\ UNCHANGED <<sub_intents, inflight>>
               /\ last' = Rejected("submit_payment_proof",
                                   IF ~found THEN "sub_intent_not_found"
                                   ELSE IF ~taken THEN "not_taken"
                                   ELSE IF ~priced THEN "overflow" ELSE "memo_mismatch")
    /\ UNCHANGED <<balances, intents, transition_expectations, pending_withdrawals, next_id,
                   overflow_checks, finalized_heights, origin, deposits, ledger_supply>>

on_proof_verified(r, verify_result) ==
    /\ r.kind = "payment" /\ BagIn(r, inflight)
    /\ LET is_valid == verify_result = "OkTrue"
           ok == is_valid /\ r.id \in DOMAIN sub_intents
       IN IF ok
          THEN LET sub == [sub_intents[r.id] EXCEPT !.status = "Verifying"]
                   parent == intents[sub.parent_intent_id]
               IN /\ sub_intents' = Insert(sub_intents, r.id, sub)
                  /\ transition_expectations' =
                         Insert(transition_expectations, r.id,
                                TransitionExpectation(r.chain_type, parent.src_asset,
                                                      sub.amount, r.id))
                  /\ inflight' = Dispatch(Deliver(inflight, r), SignRequest(r.id, r.chain_type))
                  /\ last' = Outcome("on_proof_verified", TRUE, "-", r.id, verify_result, "-",
                                     NoMatches)
          ELSE /\ UNCHANGED <<sub_intents, transition_expectations>>
               /\ inflight' = Deliver(inflight, r)
               /\ last' = Outcome("on_proof_verified", FALSE, "-", r.id, verify_result,
                                  "invalid_proof", NoMatches)
    /\ UNCHANGED <<balances, intents, pending_withdrawals, next_id, overflow_checks, finalized_heights, origin,
                   deposits, ledger_supply>>

\* ------------------------------------------------------------------ withdraw

PendingWithdrawalNoAmount(user, asset, amount) == [user |-> user, asset |-> asset, amount |-> 0]
PendingWithdrawal(user, asset, amount) == [user |-> user, asset |-> asset, amount |-> amount]

withdraw(user, asset, amount, chain_type) ==
    /\ next_id < MaxId
    /\ LET found == user \in DOMAIN balances
           current == get_balance(balances, user, asset)
           ok == found /\ current >= amount
           wd_id == next_id
       IN IF ok
          THEN /\ balances' = SetBalance(balances, user, asset, current - amount)
               /\ next_id' = AllocateId(next_id)
               /\ pending_withdrawals' =
                      Insert(pending_withdrawals, wd_id, PendingWithdrawal(user, asset, amount))
               /\ inflight' = Dispatch(inflight, SignRequest(wd_id, chain_type))
               /\ origin' = Insert(origin, wd_id, "withdraw")
               /\ last' = Outcome("withdraw", TRUE, user, wd_id, "-", "-", NoMatches)
          ELSE /\ UNCHANGED <<balances, next_id, pending_withdrawals, inflight, origin>>
               /\ last' = Rejected("withdraw",
                                   IF found THEN "insufficient_funds" ELSE "user_not_found")
    /\ UNCHANGED <<intents, sub_intents, transition_expectations, overflow_checks, finalized_heights, deposits, ledger_supply>>

\* ----------------------------- verify_transition_completion and its callback

verify_transition_completion(sub_intent_id) ==
    /\ LET found == sub_intent_id \in DOMAIN sub_intents
           settled == found /\ sub_intents[sub_intent_id].status = "Settled"
           ok == settled /\ sub_intent_id \in DOMAIN transition_expectations
       IN IF ok
          THEN /\ sub_intents' = Insert(sub_intents, sub_intent_id,
                                        [sub_intents[sub_intent_id] EXCEPT
                                           !.status = "TransitionVerifying"])
               /\ inflight' = Dispatch(inflight, TransitionRequest(sub_intent_id))
               /\ last' = Outcome("verify_transition_completion", TRUE, "-", sub_intent_id,
                                  "-", "-", NoMatches)
          ELSE /\ UNCHANGED <<sub_intents, inflight>>
               /\ last' = Rejected("verify_transition_completion",
                                   IF ~found THEN "sub_intent_not_found"
                                   ELSE IF ~settled THEN "not_settled"
                                   ELSE "expectation_not_found")
    /\ UNCHANGED <<balances, intents, transition_expectations, pending_withdrawals, next_id,
                   overflow_checks, finalized_heights, origin, deposits, ledger_supply>>

\* The status on_transition_verified stores: Completed for a valid proof,
\* Settled again otherwise.
TransitionVerifiedCompleted(is_valid) == "Completed"
TransitionVerifiedStatus(is_valid) == IF is_valid THEN "Completed" ELSE "Settled"

on_transition_verified(r, verify_result) ==
    /\ r.kind = "transition" /\ BagIn(r, inflight)
    /\ inflight' = Deliver(inflight, r)
    /\ LET is_valid == verify_result = "OkTrue"
           found == r.id \in DOMAIN sub_intents
       IN IF ~found
          THEN /\ UNCHANGED <<sub_intents, transition_expectations>>
               /\ last' = Outcome("on_transition_verified", FALSE, "-", r.id, verify_result,
                                  "sub_intent_not_found", NoMatches)
          ELSE /\ sub_intents' =
                      Insert(sub_intents, r.id,
                             [sub_intents[r.id] EXCEPT
                                !.status = TransitionVerifiedStatus(is_valid)])
               /\ transition_expectations' =
                      IF is_valid THEN Remove(transition_expectations, r.id)
                      ELSE transition_expectations
               /\ last' = Outcome("on_transition_verified", TRUE, "-", r.id, verify_result, "-",
                                  NoMatches)
    /\ UNCHANGED <<balances, intents, pending_withdrawals, next_id, overflow_checks, finalized_heights, origin,
                   deposits, ledger_supply>>

\* ----------------------------------------------------------------- on_signed

\* The Ok arm: a sub-intent in Verifying becomes Settled.
SignedOkSubIntents(subs, id) ==
    IF id \in DOMAIN subs /\ subs[id].status = "Verifying"
    THEN Insert(subs, id, [subs[id] EXCEPT !.status = "Settled"])
    ELSE subs

\* The Err arm: the sub-intent with that id becomes Taken.
SignedErrSubIntentsAll(subs, id) ==
    [x \in DOMAIN subs |->
       IF subs[x].status = "Verifying" THEN [subs[x] EXCEPT !.status = "Taken"] ELSE subs[x]]
SignedErrSubIntentsOpen(subs, id) ==
    IF id \in DOMAIN subs
    THEN Insert(subs, id, [subs[id] EXCEPT !.status = "Open"])
    ELSE subs
SignedErrSubIntents(subs, id) ==
    IF id \in DOMAIN subs
    THEN Insert(subs, id, [subs[id] EXCEPT !.status = "Taken"])
    ELSE subs

\* The Err arm: the transition expectation of a sub-intent with that id is removed.
SignedErrExpectationsKept(exps, subs, id) == exps
SignedErrExpectations(exps, subs, id) ==
    IF id \in DOMAIN subs THEN Remove(exps, id) ELSE exps

\* The Err arm: the refund of a pending withdrawal with that id.
SignedErrRefund(bals, wds, id, checks) ==
    IF id \in DOMAIN wds
    THEN internal_transfer(bals, wds[id].user, wds[id].asset, wds[id].amount, checks)
    ELSE [panic |-> FALSE, balances |-> bals]

\* The handler on any state and any arguments: the stores it leaves.
OnSigned(bals, subs, exps, wds, id, call_result, checks) ==
    IF call_result = "Ok"
    THEN [panic |-> FALSE, balances |-> bals,
          sub_intents |-> SignedOkSubIntents(subs, id),
          transition_expectations |-> exps,
          pending_withdrawals |-> Remove(wds, id)]
    ELSE LET refund == SignedErrRefund(bals, wds, id, checks)
         IN [panic |-> refund.panic, balances |-> refund.balances,
             sub_intents |-> SignedErrSubIntents(subs, id),
             transition_expectations |-> SignedErrExpectations(exps, subs, id),
             pending_withdrawals |-> Remove(wds, id)]

\* hex::encode: two digits per byte, the high one first.
HexDigits == <<"0", "1", "2", "3", "4", "5", "6", "7", "8", "9", "a", "b", "c", "d", "e", "f">>
RECURSIVE hex_encode(_)
hex_encode(bytes) ==
    IF bytes = <<>> THEN <<>>
    ELSE <<HexDigits[(Head(bytes) \div 16) + 1], HexDigits[(Head(bytes) % 16) + 1]>>
         \o hex_encode(Tail(bytes))

\* The SignatureEvent logged for the relayer (the signature itself left out).
SignatureEvent(id, chain_type, payload) ==
    [sub_intent_id |-> id, chain_type |-> chain_type, payload |-> hex_encode(payload),
     transition_memo |-> TransitionMemo(id)]
\* The events of one callback: one in the Ok arm, none in the Err arm.
SignatureEventsOfAnyResult(id, chain_type, payload, call_result) ==
    <<SignatureEvent(id, chain_type, payload)>>
SignatureEvents(id, chain_type, payload, call_result) ==
    IF call_result = "Ok" THEN <<SignatureEvent(id, chain_type, payload)>> ELSE <<>>

\* The handler run on (id, call_result): what it persists, and the log it
\* leaves, which is kept only when the handler did not panic.
OnSignedStepLogging(id, call_result, log) ==
    /\ \E w \in {OnSigned(balances, sub_intents, transition_expectations,
                          pending_withdrawals, id, call_result, overflow_checks)} :
       LET ok == ~w.panic
       IN /\ balances' = Persist(ok, balances, w.balances)
          /\ sub_intents' = Persist(ok, sub_intents, w.sub_intents)
          /\ transition_expectations' =
                 Persist(ok, transition_expectations, w.transition_expectations)
          /\ pending_withdrawals' = Persist(ok, pending_withdrawals, w.pending_withdrawals)
          /\ ledger_supply' = IF ok /\ call_result = "Ok" /\ id \in DOMAIN pending_withdrawals
                       THEN Entered(ledger_supply, pending_withdrawals[id].asset,
                                     0 - pending_withdrawals[id].amount)
                       ELSE ledger_supply
          /\ last' = Outcome("on_signed", ok, "-", id, call_result,
                             IF ok THEN "-" ELSE "overflow", Persist(ok, NoMatches, log))
    /\ UNCHANGED <<intents, next_id, overflow_checks, finalized_heights, origin, deposits>>

\* The same with the log left out.
OnSignedStep(id, call_result) == OnSignedStepLogging(id, call_result, NoMatches)

\* The callback of a signer request in flight.
on_signed(r, call_result) ==
    /\ r.kind = "sign" /\ BagIn(r, inflight)
    /\ inflight' = Deliver(inflight, r)
    /\ OnSignedStep(r.id, call_result)

\* ------------------------------------------------------------------- inputs

\* The legs and the batches a solver submits.
LegInputs ==
    {MatchParams(i, f, g, c) :
       i \in DOMAIN intents, f \in FillAmounts, g \in GetAmounts, c \in ChainInputs}
    \cup {MatchParams(next_id, 1, 1, c) : c \in ChainInputs}

Requests == BagToSet(inflight)
SignResults == {"Ok", "Err"}
VerifyResults == {"OkTrue", "OkFalse", "Err"}
SubIntentInputs == (DOMAIN sub_intents) \cup {next_id}

\* A call that was rejected: the handler panicked, and since it is no callback,
\* nothing at all changed.
Callbacks == {"on_signed", "on_proof_verified", "on_transition_verified",
              "on_mpc_deposit_verified"}
RejectedCall == ~last.ok /\ last.op \notin Callbacks

\* The calls made, with the inputs drawn for them, and the callbacks delivered.
DepositFor ==
    \E d \in DepositInputs, c \in {Owner, "bob"} : deposit_for(c, d.user, d.asset, d.amount)
MakeIntent ==
    \E t \in IntentInputs :
       make_intent(t.maker, t.src_asset, t.src_amount, t.dst_asset, t.dst_amount)
TakeIntent ==
    \E taker \in Solvers, i \in (DOMAIN intents) \cup {next_id}, amt \in FillAmounts :
       take_intent(taker, i, amt)
BatchMatchIntents ==
    \E m1 \in LegInputs, m2 \in LegInputs, solver \in Solvers :
       batch_match_intents(solver, <<m1, m2>>)
RetrySettlement ==
    \E caller \in Makers, i \in SubIntentInputs, c \in RetryChainInputs :
       retry_settlement(caller, i, c)
SubmitPaymentProof ==
    \E i \in SubIntentInputs, c \in ChainInputs :
       \E memo \in {PaymentMemo(i), TransitionMemo(i)} : submit_payment_proof(i, memo, c)
Withdraw ==
    \E w \in WithdrawInputs, c \in ChainInputs : withdraw(w.user, w.asset, w.amount, c)
VerifyTransitionCompletion ==
    \E i \in SubIntentInputs : verify_transition_completion(i)
OnProofVerified == \E r \in Requests, res \in VerifyResults : on_proof_verified(r, res)
OnTransitionVerified ==
    \E r \in Requests, res \in VerifyResults : on_transition_verified(r, res)
OnSignedDelivered == \E r \in Requests, res \in SignResults : on_signed(r, res)

\* The state machine of the accepted calls and the callbacks: a rejected call
\* changes nothing and is no step of it.
Accepted == ~RejectedCall'
Next ==
    \/ DepositFor /\ Accepted
    \/ MakeIntent /\ Accepted
    \/ TakeIntent /\ Accepted
    \/ BatchMatchIntents /\ Accepted
    \/ RetrySettlement /\ Accepted
    \/ SubmitPaymentProof /\ Accepted
    \/ Withdraw /\ Accepted
    \/ VerifyTransitionCompletion /\ Accepted
    \/ OnProofVerified
    \/ OnTransitionVerified
    \/ OnSignedDelivered

Spec == Init /\ [][Next]_vars

\* The same machine with the rejected calls as steps, each recorded in last with
\* the reason of the panic. A rejected call leaves the contract in the state it
\* was called in, where every continuation is explored already: the run is not
\* continued past it.
Running == ~RejectedCall
NextCalls ==
    \/ Running /\ DepositFor
    \/ Running /\ MakeIntent
    \/ Running /\ TakeIntent
    \/ Running /\ BatchMatchIntents
    \/ Running /\ RetrySettlement
    \/ Running /\ SubmitPaymentProof
    \/ Running /\ Withdraw
    \/ Running /\ VerifyTransitionCompletion
    \/ Running /\ OnProofVerified
    \/ Running /\ OnTransitionVerified
    \/ Running /\ OnSignedDelivered

SpecCalls == Init /\ [][NextCalls]_vars

\* The intents alone, with the amounts make_intent and take_intent accept: zero
\* amounts included.
ZeroIntentInputs ==
    {[maker |-> "alice", src_asset |-> "ETH", src_amount |-> 0, dst_asset |-> "SOL", dst_amount |-> 1]}
MakeIntentAny ==
    \E t \in IntentInputs \cup ZeroIntentInputs :
       make_intent(t.maker, t.src_asset, t.src_amount, t.dst_asset, t.dst_amount)
TakeIntentAny ==
    \E taker \in Solvers, i \in (DOMAIN intents) \cup {next_id}, amt \in FillAmounts \cup {0} :
       take_intent(taker, i, amt)
NextIntents ==
    \/ DepositFor /\ Accepted
    \/ MakeIntentAny /\ Accepted
    \/ TakeIntentAny /\ Accepted
    \/ BatchMatchIntents /\ Accepted

SpecIntents == Init /\ [][NextIntents]_vars

\* The payment-proof path by itself, over every amount: the contract after the
\* owner's deposit_for(alice, ETH, src_amount), alice's make_intent(ETH
\* src_amount -> SOL dst_amount) and bob's take_intent(0, amount), for all
\* amounts make_intent and take_intent accept.
InitPayment ==
    \E src_amount \in 0 .. U128Max, dst_amount \in 0 .. U128Max :
       \E amount \in 0 .. src_amount :
          /\ balances = SetBalance(EmptyMap, "alice", "ETH", 0)
          /\ intents = Insert(EmptyMap, 0,
                              Fill([maker |-> "alice", src_asset |-> "ETH",
                                    src_amount |-> src_amount, filled_amount |-> 0,
                                    dst_asset |-> "SOL", dst_amount |-> dst_amount,
                                    status |-> "Open"], amount))
          /\ sub_intents = Insert(EmptyMap, 1, SubIntent(0, "bob", amount, "Taken"))
          /\ transition_expectations = EmptyMap
          /\ pending_withdrawals = EmptyMap
          /\ next_id = 2
          /\ inflight = EmptyBag
          /\ overflow_checks \in BOOLEAN
          /\ finalized_heights = EmptyMap
          /\ origin = Insert(Insert(EmptyMap, 0, "make_intent"), 1, "take_intent")
          /\ deposits = 1
          /\ ledger_supply = [a \in Assets |-> IF a = "ETH" THEN src_amount ELSE 0]
          /\ last = Outcome("take_intent", TRUE, "bob", 1, "-", "-", NoMatches)
NextPayment ==
    \/ Running /\ SubmitPaymentProof
    \/ Running /\ OnProofVerified
    \/ Running /\ OnSignedDelivered

SpecPayment == InitPayment /\ [][NextPayment]_vars

\* The number of external requests in flight for an id.
InFlightFor(id) ==
    BagCardinality([r \in {x \in BagToSet(inflight) : x.id = id} |-> inflight[r]])

\* The handler on_signed by itself, for what it does on an id in any status:
\* the machine of the accepted calls, where on_signed also runs on the ids
\* that have no request in flight, as a test harness calls it.
OnSignedCalled ==
    \E id \in (DOMAIN sub_intents) \cup {next_id}, res \in SignResults :
       /\ InFlightFor(id) = 0
       /\ inflight' = inflight
       /\ OnSignedStep(id, res)
NextOnSigned ==
    \/ DepositFor /\ Accepted
    \/ MakeIntent /\ Accepted
    \/ TakeIntent /\ Accepted
    \/ RetrySettlement /\ Accepted
    \/ SubmitPaymentProof /\ Accepted
    \/ Withdraw /\ Accepted
    \/ VerifyTransitionCompletion /\ Accepted
    \/ OnProofVerified
    \/ OnTransitionVerified
    \/ OnSignedDelivered
    \/ OnSignedCalled

SpecOnSigned == Init /\ [][NextOnSigned]_vars

\* ---------------------------------------------------------------- claims

SubStatuses == {"Taken", "Verifying", "Settled", "TransitionVerifying", "Completed"}

BatchAccepted == last.op = "batch_match_intents" /\ last.ok
BatchRejected == last.op = "batch_match_intents" /\ ~last.ok

\* The exact integer sums of an asset over the legs of a batch: what the legs
\* supply of it (fill_amount, where it is the intent's src_asset) and what they
\* demand of it (get_amount, where it is the intent's dst_asset).
RECURSIVE Supplied(_, _, _)
Supplied(matches, asset, n) ==
    IF n = 0 THEN 0
    ELSE Supplied(matches, asset, n - 1)
         + (IF intents[matches[n].intent_id].src_asset = asset
            THEN matches[n].fill_amount ELSE 0)
RECURSIVE Demanded(_, _, _)
Demanded(matches, asset, n) ==
    IF n = 0 THEN 0
    ELSE Demanded(matches, asset, n - 1)
         + (IF intents[matches[n].intent_id].dst_asset = asset
            THEN matches[n].get_amount ELSE 0)

\* C1: batch_match_intents is all-or-nothing: a batch that fails a per-leg check
\* or the conservation check leaves every balance, intent, sub-intent,
\* transition expectation, pending withdrawal and next_id as before the call,
\* and dispatches no signer request.
C1_BatchAllOrNothing ==
    [][BatchRejected' =>
         UNCHANGED <<balances, intents, sub_intents, transition_expectations,
                     pending_withdrawals, next_id, inflight>>]_vars

\* A batch was rejected by the conservation check, after every leg had passed
\* its checks and made its writes.
C1_Witness == BatchRejected /\ last.reason = "insufficient_supply"

\* C2: every accepted batch is asset-conservative: for every asset, the legs
\* supply at least what they demand.
C2_AcceptedBatchConserves ==
    BatchAccepted =>
        \A a \in Assets :
            Supplied(last.matches, a, Len(last.matches))
                >= Demanded(last.matches, a, Len(last.matches))

\* The asset_balance map the handler computed over the legs of a batch.
RECURSIVE CodeNet(_, _, _)
CodeNet(matches, n, checks) ==
    IF n = 0 THEN EmptyMap
    ELSE TrackSupplyDemand(CodeNet(matches, n - 1, checks), matches[n],
                           intents[matches[n].intent_id], checks).asset_balance

\* C3: in an accepted batch the signed net the conservation check used equals,
\* for every asset, the exact integer (sum of fill_amount) - (sum of get_amount).
C3_NetIsExact ==
    BatchAccepted =>
        LET net == CodeNet(last.matches, Len(last.matches), overflow_checks)
        IN \A a \in DOMAIN net :
              net[a] = Supplied(last.matches, a, Len(last.matches))
                       - Demanded(last.matches, a, Len(last.matches))

\* C4: every leg of an accepted batch satisfies the maker's price:
\* get_amount * src_amount >= fill_amount * dst_amount, as integers.
C4_AcceptedLegsMeetPrice ==
    BatchAccepted =>
        \A n \in 1 .. Len(last.matches) :
            LET m == last.matches[n]
                intent == intents[m.intent_id]
            IN m.get_amount * intent.src_amount >= m.fill_amount * intent.dst_amount

\* The status edges of a sub-intent, each with the handler that takes it and,
\* for a callback, the result delivered.
StatusEdges ==
    {<<"Verifying", "Settled", "on_signed", "Ok">>,
     <<"Verifying", "Taken", "on_signed", "Err">>,
     <<"Taken", "Verifying", "retry_settlement", "-">>,
     <<"Taken", "Verifying", "submit_payment_proof", "-">>,
     <<"Settled", "TransitionVerifying", "verify_transition_completion", "-">>,
     <<"TransitionVerifying", "Completed", "on_transition_verified", "OkTrue">>,
     <<"TransitionVerifying", "Settled", "on_transition_verified", "OkFalse">>,
     <<"TransitionVerifying", "Settled", "on_transition_verified", "Err">>}
CreationEdges ==
    {<<"Verifying", "batch_match_intents">>, <<"Taken", "take_intent">>}

\* C5: a sub-intent's status changes only along the edges of the state machine:
\* created in Verifying by batch_match_intents or in Taken by take_intent, then
\* one of StatusEdges; it is never removed and never Open or Filled.
C5_StatusEdgesOnly ==
    [][/\ DOMAIN sub_intents \subseteq DOMAIN sub_intents'
       /\ \A id \in DOMAIN sub_intents' :
            /\ sub_intents'[id].status \in SubStatuses
            /\ id \notin DOMAIN sub_intents =>
                  <<sub_intents'[id].status, last'.op>> \in CreationEdges
            /\ (id \in DOMAIN sub_intents
                  /\ sub_intents'[id].status # sub_intents[id].status) =>
                  /\ <<sub_intents[id].status, sub_intents'[id].status, last'.op,
                       last'.result>> \in StatusEdges
                  /\ last'.id = id]_vars

\* A sub-intent created by a batch went all the way to Completed.
C5_Witness ==
    \E id \in DOMAIN sub_intents :
        /\ sub_intents[id].status = "Completed"
        /\ origin[id] = "batch_match_intents"

\* C6: every sub-intent in Verifying or TransitionVerifying has exactly one
\* external request in flight.
C6_OneRequestInFlight ==
    \A id \in DOMAIN sub_intents :
        sub_intents[id].status \in {"Verifying", "TransitionVerifying"} =>
            InFlightFor(id) = 1

C8_SignerFailureRollback ==
    [][(/\ last'.op = "on_signed" /\ last'.result = "Err"
        /\ last'.id \in DOMAIN sub_intents
        /\ origin[last'.id] = "batch_match_intents") =>
          /\ sub_intents'[last'.id] = [sub_intents[last'.id] EXCEPT !.status = "Taken"]
          /\ last'.id \notin DOMAIN transition_expectations'
          /\ \A o \in (DOMAIN sub_intents) \ {last'.id} : sub_intents'[o] = sub_intents[o]
          /\ \A o \in (DOMAIN transition_expectations) \ {last'.id} :
                o \in DOMAIN transition_expectations'
                /\ transition_expectations'[o] = transition_expectations[o]
          /\ UNCHANGED <<balances, intents, pending_withdrawals, next_id>>]_vars

\* A batch's sub-intent was rolled back to Taken by a signer failure while the
\* maker of its parent keeps the credit of the match.
C8_Witness ==
    /\ last.op = "on_signed" /\ last.result = "Err"
    /\ last.id \in DOMAIN sub_intents
    /\ origin[last.id] = "batch_match_intents"
    /\ sub_intents[last.id].status = "Taken"
    /\ LET parent == intents[sub_intents[last.id].parent_intent_id]
       IN get_balance(balances, parent.maker, parent.dst_asset) > 0

\* C9: the failure callback of a withdrawal credits exactly the withdrawn amount
\* back to (user, asset) and removes the PendingWithdrawal.
C9_FailureRefundsExactly ==
    [][(/\ last'.op = "on_signed" /\ last'.result = "Err"
        /\ last'.id \in DOMAIN pending_withdrawals) =>
          LET wd == pending_withdrawals[last'.id]
          IN /\ get_balance(balances', wd.user, wd.asset)
                  = get_balance(balances, wd.user, wd.asset) + wd.amount
             /\ last'.id \notin DOMAIN pending_withdrawals']_vars

\* C10: no PendingWithdrawal remains once its signer callback has been
\* processed: every entry still has its signer request in flight.
C10_PendingAwaitsCallback ==
    \A id \in DOMAIN pending_withdrawals : InFlightFor(id) = 1

\* The ids in use and the number of requests in flight.
Allocated == (DOMAIN intents) \cup (DOMAIN sub_intents) \cup (DOMAIN pending_withdrawals)
InFlightCount == BagCardinality(inflight)

\* C11: an accepted withdraw is by a user holding at least amount; it debits
\* exactly amount from (user, asset) and nothing else, records
\* PendingWithdrawal{user, asset, amount} under the fresh id next_id and
\* dispatches exactly one signer request carrying that id. A rejected withdraw
\* changes no balance, no pending withdrawal, not next_id and dispatches
\* nothing; a withdraw the balance covers is accepted; no balance is negative.
C11_Withdraw ==
    [][/\ last'.op = "withdraw" /\ last'.ok =>
            /\ last'.id = next_id /\ next_id' = next_id + 1
            /\ last'.id \notin Allocated
            /\ DOMAIN pending_withdrawals' = (DOMAIN pending_withdrawals) \cup {last'.id}
            /\ \A o \in DOMAIN pending_withdrawals :
                  pending_withdrawals'[o] = pending_withdrawals[o]
            /\ LET wd == pending_withdrawals'[last'.id]
               IN /\ wd.user = last'.caller
                  /\ wd.user \in DOMAIN balances
                  /\ get_balance(balances, wd.user, wd.asset) >= wd.amount
                  /\ \A u \in Accounts, a \in Assets :
                        get_balance(balances', u, a) =
                            get_balance(balances, u, a)
                            - (IF u = wd.user /\ a = wd.asset THEN wd.amount ELSE 0)
            /\ InFlightCount' = InFlightCount + 1
            /\ \E r \in BagToSet(inflight') :
                  /\ r.kind = "sign" /\ r.id = last'.id
                  /\ inflight' = Dispatch(inflight, r)
       /\ last'.op = "withdraw" /\ ~last'.ok =>
            UNCHANGED <<balances, pending_withdrawals, next_id, inflight>>
       /\ \A w \in WithdrawInputs, c \in ChainInputs :
            (/\ w.user \in DOMAIN balances
             /\ get_balance(balances, w.user, w.asset) >= w.amount
             /\ next_id < MaxId
             /\ ~RejectedCall) =>
               ENABLED (withdraw(w.user, w.asset, w.amount, c) /\ last'.ok)
       /\ \A u \in DOMAIN balances' : \A a \in Assets : balances'[u][a] >= 0]_vars

\* A withdrawal of part of a balance was accepted.
C11_Witness ==
    /\ last.op = "withdraw" /\ last.ok
    /\ get_balance(balances, last.caller, pending_withdrawals[last.id].asset) > 0

\* C12: for every intent, 0 <= filled_amount <= src_amount, and its status is
\* Filled exactly when filled_amount = src_amount.
C12_IntentFillInvariant ==
    \A i \in DOMAIN intents :
        /\ 0 <= intents[i].filled_amount
        /\ intents[i].filled_amount <= intents[i].src_amount
        /\ (intents[i].status = "Filled") = (intents[i].filled_amount = intents[i].src_amount)

\* The sum of the amounts of the sub-intents of an intent with an id below n.
RECURSIVE SiblingAmounts(_, _)
SiblingAmounts(intent_id, n) ==
    IF n = 0 THEN 0
    ELSE SiblingAmounts(intent_id, n - 1)
         + (IF (n - 1) \in DOMAIN sub_intents
                /\ sub_intents[n - 1].parent_intent_id = intent_id
            THEN sub_intents[n - 1].amount ELSE 0)

\* C13: for every intent the amounts of its sub-intents sum to its
\* filled_amount, which is at most its src_amount; every sub-intent's parent
\* exists and its amount is at most the parent's src_amount.
C13_SubIntentAmounts ==
    /\ \A i \in DOMAIN intents :
          /\ SiblingAmounts(i, next_id) = intents[i].filled_amount
          /\ SiblingAmounts(i, next_id) <= intents[i].src_amount
    /\ \A id \in DOMAIN sub_intents :
          /\ sub_intents[id].parent_intent_id \in DOMAIN intents
          /\ sub_intents[id].amount <= intents[sub_intents[id].parent_intent_id].src_amount

\* An intent was filled by two sub-intents.
C13_Witness ==
    \E a \in DOMAIN sub_intents, b \in DOMAIN sub_intents :
        /\ a # b
        /\ sub_intents[a].parent_intent_id = sub_intents[b].parent_intent_id
        /\ intents[sub_intents[a].parent_intent_id].status = "Filled"

\* C14: ids are allocated from next_id in strictly increasing order and never
\* reused: every step adds to the stores exactly the ids from the old next_id
\* up to the new one, no intent or sub-intent id is ever dropped, no id is a key
\* of two stores, and every key is below next_id.
C14_IdsUnique ==
    [][/\ next_id' >= next_id
       /\ Allocated' \ Allocated = next_id .. (next_id' - 1)
       /\ DOMAIN intents \subseteq DOMAIN intents'
       /\ DOMAIN sub_intents \subseteq DOMAIN sub_intents'
       /\ DOMAIN pending_withdrawals' \subseteq (DOMAIN pending_withdrawals) \cup (next_id .. (next_id' - 1))
       /\ (DOMAIN intents') \cap (DOMAIN sub_intents') = {}
       /\ (DOMAIN intents') \cap (DOMAIN pending_withdrawals') = {}
       /\ (DOMAIN sub_intents') \cap (DOMAIN pending_withdrawals') = {}
       /\ \A id \in Allocated' : id < next_id']_vars

\* A withdrawal's entry was removed, its id is a key of no store, and ids
\* allocated after it are in use.
C14_Witness ==
    \E id \in DOMAIN origin :
        /\ origin[id] = "withdraw" /\ id \notin Allocated
        /\ \E later \in DOMAIN sub_intents : later > id

\* The stores with the entries of one id left out.
Others(m, id) == [x \in (DOMAIN m) \ {id} |-> m[x]]

\* C15: an accepted retry_settlement is by the taker of an existing sub-intent
\* in Taken; it makes the sub-intent Verifying, stores its TransitionExpectation
\* and dispatches exactly one signer request for it, and changes nothing else.
\* A rejected one changes no state and dispatches nothing, and a call by the
\* taker on a Taken sub-intent is accepted.
C15_RetrySettlement ==
    [][/\ last'.op = "retry_settlement" /\ last'.ok =>
            LET id == last'.id
            IN /\ id \in DOMAIN sub_intents
               /\ sub_intents[id].status = "Taken"
               /\ sub_intents[id].taker = last'.caller
               /\ sub_intents' = [sub_intents EXCEPT ![id].status = "Verifying"]
               /\ id \in DOMAIN transition_expectations'
               /\ Others(transition_expectations', id) = Others(transition_expectations, id)
               /\ \E r \in BagToSet(inflight') :
                     /\ r.kind = "sign" /\ r.id = id
                     /\ inflight' = Dispatch(inflight, r)
                     /\ transition_expectations'[id] =
                           [chain_type |-> r.chain_type,
                            expected_asset |-> intents[sub_intents[id].parent_intent_id].src_asset,
                            expected_amount |-> sub_intents[id].amount,
                            expected_memo |-> <<"transition:sub:", id>>]
               /\ UNCHANGED <<balances, intents, pending_withdrawals, next_id>>
       /\ last'.op = "retry_settlement" /\ ~last'.ok =>
            UNCHANGED <<contract, inflight>>
       /\ \A id \in DOMAIN sub_intents, c \in RetryChainInputs :
            (sub_intents[id].status = "Taken" /\ ~RejectedCall) =>
               ENABLED (retry_settlement(sub_intents[id].taker, id, c) /\ last'.ok)]_vars

\* The taker retried a batch's sub-intent after its signer request had failed.
C15_Witness ==
    /\ last.op = "retry_settlement" /\ last.ok
    /\ origin[last.id] = "batch_match_intents"

\* C16: verify_transition_completion is accepted exactly on a Settled
\* sub-intent that has a TransitionExpectation, at every attempt: it makes the
\* sub-intent TransitionVerifying and dispatches one light-client request; a
\* rejected call changes nothing. An invalid or failed result returns the
\* sub-intent to Settled with every expectation unchanged; a valid result makes
\* it Completed and removes its expectation.
C16_TransitionAttempts ==
    [][/\ last'.op = "verify_transition_completion" /\ last'.ok =>
            LET id == last'.id
            IN /\ id \in DOMAIN sub_intents /\ sub_intents[id].status = "Settled"
               /\ id \in DOMAIN transition_expectations
               /\ sub_intents' = [sub_intents EXCEPT ![id].status = "TransitionVerifying"]
               /\ \E r \in BagToSet(inflight') :
                     /\ r.kind = "transition" /\ r.id = id
                     /\ inflight' = Dispatch(inflight, r)
               /\ UNCHANGED <<balances, intents, transition_expectations,
                              pending_withdrawals, next_id>>
       /\ last'.op = "verify_transition_completion" /\ ~last'.ok =>
            UNCHANGED <<contract, inflight>>
       /\ \A id \in DOMAIN sub_intents :
            (/\ sub_intents[id].status = "Settled"
             /\ id \in DOMAIN transition_expectations
             /\ ~RejectedCall) =>
               ENABLED (verify_transition_completion(id) /\ last'.ok)
       /\ last'.op = "on_transition_verified" =>
            LET id == last'.id
            IN /\ sub_intents[id].status = "TransitionVerifying"
               /\ id \in DOMAIN transition_expectations
               /\ IF last'.result = "OkTrue"
                  THEN /\ sub_intents' = [sub_intents EXCEPT ![id].status = "Completed"]
                       /\ transition_expectations' = Others(transition_expectations, id)
                  ELSE /\ sub_intents' = [sub_intents EXCEPT ![id].status = "Settled"]
                       /\ transition_expectations' = transition_expectations
               /\ UNCHANGED <<balances, intents, pending_withdrawals, next_id>>]_vars

\* A transition attempt failed and the sub-intent is Settled again, its
\* expectation still stored.
C16_Witness ==
    /\ last.op = "on_transition_verified" /\ last.result = "OkFalse"
    /\ sub_intents[last.id].status = "Settled"
    /\ last.id \in DOMAIN transition_expectations

\* Whether a signer request is in flight for an id.
SignInFlight(id) == \E r \in BagToSet(inflight) : r.kind = "sign" /\ r.id = id

\* C17: a TransitionExpectation is stored for a sub-intent exactly when it is
\* Settled, TransitionVerifying, or Verifying with a signer request in flight;
\* none for one that is Taken, Completed or Verifying around its payment-proof
\* verification; and every expectation's key is a sub-intent's id.
C17_ExpectationPresence ==
    /\ DOMAIN transition_expectations \subseteq DOMAIN sub_intents
    /\ \A id \in DOMAIN sub_intents :
          (id \in DOMAIN transition_expectations)
            = \/ sub_intents[id].status \in {"Settled", "TransitionVerifying"}
              \/ sub_intents[id].status = "Verifying" /\ SignInFlight(id)

\* A sub-intent whose payment proof was refused is Verifying without an
\* expectation, beside a Settled one that has its expectation.
C17_Witness ==
    /\ last.op = "on_proof_verified" /\ ~last.ok
    /\ sub_intents[last.id].status = "Verifying"
    /\ last.id \notin DOMAIN transition_expectations
    /\ \E o \in DOMAIN transition_expectations : sub_intents[o].status = "Settled"

\* Over the first n legs of a batch: the fill_amount the legs on an intent add
\* up to, and the get_amount credited to (user, asset) as the maker's dst_asset.
RECURSIVE FilledBy(_, _, _)
FilledBy(matches, intent_id, n) ==
    IF n = 0 THEN 0
    ELSE FilledBy(matches, intent_id, n - 1)
         + (IF matches[n].intent_id = intent_id THEN matches[n].fill_amount ELSE 0)
RECURSIVE CreditedTo(_, _, _, _)
CreditedTo(matches, user, asset, n) ==
    IF n = 0 THEN 0
    ELSE CreditedTo(matches, user, asset, n - 1)
         + (IF /\ intents[matches[n].intent_id].maker = user
               /\ intents[matches[n].intent_id].dst_asset = asset
            THEN matches[n].get_amount ELSE 0)

\* C18: in an accepted batch the i-th leg creates the sub-intent next_id + i - 1
\* (parent the leg's intent, taker the caller, amount fill_amount, Verifying),
\* its TransitionExpectation and exactly one signer request for it; every
\* intent's filled_amount grows by the fill_amount of its legs, Filled exactly
\* when it reaches src_amount; and every maker is credited exactly the
\* get_amount of its legs in dst_asset.
C18_BatchLegEffects ==
    [][BatchAccepted' =>
         LET ms == last'.matches
             n == Len(ms)
         IN /\ next_id' = next_id + n
            /\ DOMAIN sub_intents' = (DOMAIN sub_intents) \cup (next_id .. (next_id + n - 1))
            /\ InFlightCount' = InFlightCount + n
            /\ \A i \in 1 .. n :
                  LET id == next_id + i - 1
                  IN /\ sub_intents'[id] =
                          [parent_intent_id |-> ms[i].intent_id, taker |-> last'.caller,
                           amount |-> ms[i].fill_amount, status |-> "Verifying"]
                     /\ id \in DOMAIN transition_expectations'
                     /\ transition_expectations'[id] =
                          [chain_type |-> ms[i].transition_chain_type,
                           expected_asset |-> intents[ms[i].intent_id].src_asset,
                           expected_amount |-> ms[i].fill_amount,
                           expected_memo |-> <<"transition:sub:", id>>]
                     /\ \E r \in BagToSet(inflight') :
                          /\ r.kind = "sign" /\ r.id = id
                          /\ \A x \in BagToSet(inflight') : x.id = id => x = r
                          /\ CopiesIn(r, inflight') = 1
            /\ \A j \in DOMAIN intents :
                  /\ intents'[j].filled_amount = intents[j].filled_amount + FilledBy(ms, j, n)
                  /\ intents'[j].status =
                        IF intents'[j].filled_amount = intents[j].src_amount
                        THEN "Filled" ELSE intents[j].status
            /\ \A u \in Accounts, a \in Assets :
                  get_balance(balances', u, a) = get_balance(balances, u, a) + CreditedTo(ms, u, a, n)]_vars

\* The stores on_signed writes, and the stores a callback leaves: those it
\* wrote, or the ones it found when it panicked.
Stores ==
    [balances |-> balances, sub_intents |-> sub_intents,
     transition_expectations |-> transition_expectations,
     pending_withdrawals |-> pending_withdrawals]
Signed(c, id, call_result) ==
    LET w == OnSigned(c.balances, c.sub_intents, c.transition_expectations,
                      c.pending_withdrawals, id, call_result, overflow_checks)
    IN [balances |-> Persist(~w.panic, c.balances, w.balances),
        sub_intents |-> Persist(~w.panic, c.sub_intents, w.sub_intents),
        transition_expectations |->
            Persist(~w.panic, c.transition_expectations, w.transition_expectations),
        pending_withdrawals |->
            Persist(~w.panic, c.pending_withdrawals, w.pending_withdrawals)]

\* C19: the signer callback of a batch's sub-intent changes only the sub-intent
\* and the TransitionExpectation of its own id, and it commutes with every
\* other signer callback in flight (of the same batch, of another batch or of a
\* withdrawal), whatever the two results: the state after both is the same in
\* either delivery order.
C19_CallbacksIndependent ==
    \A r1 \in BagToSet(inflight) :
        (r1.kind = "sign" /\ r1.id \in DOMAIN sub_intents
            /\ origin[r1.id] = "batch_match_intents") =>
          \A c1 \in SignResults :
              LET after == Signed(Stores, r1.id, c1)
              IN /\ after.balances = balances
                 /\ after.pending_withdrawals = pending_withdrawals
                 /\ Others(after.sub_intents, r1.id) = Others(sub_intents, r1.id)
                 /\ Others(after.transition_expectations, r1.id)
                       = Others(transition_expectations, r1.id)
                 /\ \A r2 \in BagToSet(inflight) \ {r1} : \A c2 \in SignResults :
                       r2.kind = "sign" =>
                          Signed(after, r2.id, c2)
                             = Signed(Signed(Stores, r2.id, c2), r1.id, c1)

\* The two callbacks of one batch were delivered, one a success and one a
\* failure.
C19_Witness ==
    /\ last.op = "on_signed"
    /\ \E a \in DOMAIN sub_intents, b \in DOMAIN sub_intents :
          /\ origin[a] = "batch_match_intents" /\ origin[b] = "batch_match_intents"
          /\ sub_intents[a].status = "Settled" /\ sub_intents[b].status = "Taken"
          /\ ~SignInFlight(a) /\ ~SignInFlight(b)

\* C20: an accepted submit_payment_proof is on an existing sub-intent in Taken
\* with memo "sub:<id>" and a product sub.amount * parent.dst_amount within
\* u128; it makes the sub-intent Verifying and dispatches exactly one payment
\* request with expected_asset = parent.dst_asset and expected_amount =
\* floor(sub.amount * parent.dst_amount / parent.src_amount), and changes
\* nothing else. A rejected one changes no state and dispatches nothing. With
\* any other memo it is not accepted; with the right memo, a product within
\* u128 and src_amount > 0 it is.
C20_SubmitPaymentProof ==
    [][/\ last'.op = "submit_payment_proof" /\ last'.ok =>
            LET id == last'.id
                sub == sub_intents[id]
                parent == intents[sub.parent_intent_id]
            IN /\ id \in DOMAIN sub_intents /\ sub.status = "Taken"
               /\ sub.amount * parent.dst_amount <= U128Max
               /\ sub_intents' = [sub_intents EXCEPT ![id].status = "Verifying"]
               /\ InFlightCount' = InFlightCount + 1
               /\ \E r \in BagToSet(inflight') :
                     /\ inflight' = Dispatch(inflight, r)
                     /\ r.kind = "payment" /\ r.id = id
                     /\ r.asset = parent.dst_asset
                     /\ r.amount * parent.src_amount <= sub.amount * parent.dst_amount
                     /\ sub.amount * parent.dst_amount < (r.amount + 1) * parent.src_amount
               /\ UNCHANGED <<balances, intents, transition_expectations,
                              pending_withdrawals, next_id>>
       /\ last'.op = "submit_payment_proof" /\ ~last'.ok =>
            UNCHANGED <<contract, inflight>>
       /\ \A id \in SubIntentInputs, c \in ChainInputs :
            ~RejectedCall =>
              /\ \A memo \in {<<"sub:", x>> : x \in Ids \ {id}} \cup {<<"transition:sub:", id>>} :
                    ~ENABLED (submit_payment_proof(id, memo, c) /\ last'.ok)
              /\ (/\ id \in DOMAIN sub_intents
                  /\ sub_intents[id].status = "Taken"
                  /\ sub_intents[id].amount * intents[sub_intents[id].parent_intent_id].dst_amount
                        <= U128Max
                  /\ intents[sub_intents[id].parent_intent_id].src_amount > 0) =>
                    ENABLED (submit_payment_proof(id, <<"sub:", id>>, c) /\ last'.ok)]_vars

\* A payment proof was accepted whose expected amount is a rounded-down
\* quotient.
C20_Witness ==
    /\ last.op = "submit_payment_proof" /\ last.ok
    /\ LET sub == sub_intents[last.id]
           parent == intents[sub.parent_intent_id]
       IN \E r \in BagToSet(inflight) :
             /\ r.kind = "payment" /\ r.id = last.id
             /\ r.amount * parent.src_amount < sub.amount * parent.dst_amount

\* C21: on_proof_verified finds its sub-intent in Verifying and leaves it so.
\* With a result other than Ok(true) (Ok(false) or a callback error) the
\* callback aborts: the contract is unchanged, no TransitionExpectation is
\* recorded and no signer request is dispatched. With Ok(true) the
\* TransitionExpectation (chain of the request, parent.src_asset, sub.amount)
\* is recorded and exactly one signer request for the sub-intent is
\* dispatched; nothing else changes.
C21_OnProofVerified ==
    [][last'.op = "on_proof_verified" =>
         LET id == last'.id
             sub == sub_intents[id]
             parent == intents[sub.parent_intent_id]
         IN /\ id \in DOMAIN sub_intents /\ sub.status = "Verifying"
            /\ sub_intents'[id].status = "Verifying"
            /\ \E p \in BagToSet(inflight) :
                  /\ p.kind = "payment" /\ p.id = id
                  /\ last'.result # "OkTrue" =>
                       /\ ~last'.ok
                       /\ UNCHANGED contract
                       /\ inflight' = Deliver(inflight, p)
                       /\ \A r \in BagToSet(inflight') :
                             r.kind = "sign" => CopiesIn(r, inflight') = CopiesIn(r, inflight)
                  /\ last'.result = "OkTrue" =>
                       /\ last'.ok
                       /\ transition_expectations' =
                             Insert(transition_expectations, id,
                                    [chain_type |-> p.chain_type,
                                     expected_asset |-> parent.src_asset,
                                     expected_amount |-> sub.amount,
                                     expected_memo |-> <<"transition:sub:", id>>])
                       /\ inflight' = Dispatch(Deliver(inflight, p), SignRequest(id, p.chain_type))
                       /\ ~SignInFlight(id)
                       /\ UNCHANGED <<balances, intents, sub_intents, pending_withdrawals,
                                      next_id>>]_vars

\* An invalid payment proof came back for a sub-intent, which is still
\* Verifying with no expectation and nothing in flight for it.
C21_Witness ==
    /\ last.op = "on_proof_verified" /\ last.result = "Err"
    /\ sub_intents[last.id].status = "Verifying"
    /\ last.id \notin DOMAIN transition_expectations
    /\ InFlightFor(last.id) = 0

\* The MPC deposits a user submits: the memo of the deposit, or another one.
MpcDepositInputs ==
    {[user |-> "bob", asset |-> "SOL", amount |-> 1]}
VerifyMpcDeposit ==
    \E d \in MpcDepositInputs :
       \E memo \in {DepositMemo(d.user, d.asset), DepositMemo(d.asset, d.user)} :
          verify_mpc_deposit(d.user, d.asset, d.amount, memo)
OnMpcDepositVerified ==
    \E r \in Requests, res \in VerifyResults : on_mpc_deposit_verified(r, res)

\* The accepted calls and the callbacks, with the MPC deposit path among them.
NextStatus ==
    \/ DepositFor /\ Accepted
    \/ VerifyMpcDeposit /\ Accepted
    \/ MakeIntent /\ Accepted
    \/ TakeIntent /\ Accepted
    \/ BatchMatchIntents /\ Accepted
    \/ RetrySettlement /\ Accepted
    \/ SubmitPaymentProof /\ Accepted
    \/ Withdraw /\ Accepted
    \/ VerifyTransitionCompletion /\ Accepted
    \/ OnMpcDepositVerified
    \/ OnProofVerified
    \/ OnTransitionVerified
    \/ OnSignedDelivered

SpecStatus == Init /\ [][NextStatus]_vars

\* The sub-intents awaiting a callback.
Awaiting == {id \in DOMAIN sub_intents :
               sub_intents[id].status \in {"Verifying", "TransitionVerifying"}}
StatusCallbacks == {"on_signed", "on_proof_verified", "on_transition_verified"}

\* C22: no call (make_intent, take_intent, batch_match_intents,
\* retry_settlement, submit_payment_proof, verify_transition_completion,
\* withdraw, deposit_for, verify_mpc_deposit) and no deposit callback changes
\* the status of a sub-intent that is Verifying or TransitionVerifying. Its
\* status changes only in a step of on_signed, on_proof_verified or
\* on_transition_verified delivered for that very sub-intent, so that with no
\* request in flight for it, it stays as it is.
C22_AwaitingOnlyCallbacks ==
    [][\A id \in Awaiting :
          /\ id \in DOMAIN sub_intents'
          /\ sub_intents'[id].status # sub_intents[id].status =>
                /\ last'.op \in StatusCallbacks
                /\ last'.id = id
                /\ InFlightFor(id) > 0]_vars

\* A deposit was requested while a sub-intent is Verifying with no request in
\* flight for it: no callback will arrive for it.
C22_Witness ==
    /\ last.op = "verify_mpc_deposit" /\ last.ok
    /\ \E id \in Awaiting : sub_intents[id].status = "Verifying" /\ InFlightFor(id) = 0

\* The intents with every call of them a step, the rejected ones included.
NextIntentCalls ==
    \/ Running /\ DepositFor
    \/ Running /\ MakeIntentAny
    \/ Running /\ TakeIntentAny
    \/ Running /\ BatchMatchIntents

SpecIntentCalls == Init /\ [][NextIntentCalls]_vars

\* C23: an accepted make_intent is by a maker with a balance record holding at
\* least src_amount of src_asset; it debits exactly src_amount from that
\* balance, stores under a fresh id, which it returns, a new intent with maker
\* = caller, filled_amount = 0 and status Open, and changes nothing else. A
\* rejected one leaves balances, intents and next_id unchanged. The call is
\* accepted exactly when the maker has a balance record and balance >=
\* src_amount.
C23_MakeIntent ==
    [][/\ last'.op = "make_intent" /\ last'.ok =>
            LET id == last'.id
                maker == last'.caller
                intent == intents'[id]
            IN /\ id = next_id /\ id \notin Allocated /\ next_id' = next_id + 1
               /\ id \in DOMAIN intents'
               /\ intents' = Insert(intents, id, intent)
               /\ intent.maker = maker /\ intent.filled_amount = 0 /\ intent.status = "Open"
               /\ maker \in DOMAIN balances
               /\ balances[maker][intent.src_asset] >= intent.src_amount
               /\ balances' = [balances EXCEPT ![maker][intent.src_asset] = @ - intent.src_amount]
               /\ UNCHANGED <<sub_intents, transition_expectations, pending_withdrawals,
                              inflight>>
       /\ last'.op = "make_intent" /\ ~last'.ok => UNCHANGED <<contract, inflight>>
       /\ \A t \in IntentInputs \cup ZeroIntentInputs :
            (~RejectedCall /\ next_id < MaxId) =>
              ((ENABLED (make_intent(t.maker, t.src_asset, t.src_amount, t.dst_asset,
                                     t.dst_amount) /\ last'.ok))
                 <=> (/\ t.maker \in DOMAIN balances
                      /\ balances[t.maker][t.src_asset] >= t.src_amount))]_vars

\* A maker who made an intent is refused another one for want of balance.
C23_Witness ==
    /\ last.op = "make_intent" /\ last.reason = "insufficient_balance"
    /\ \E id \in DOMAIN intents :
          /\ origin[id] = "make_intent" /\ intents[id].src_amount > 0
          /\ get_balance(balances, intents[id].maker, intents[id].src_asset) > 0

\* C24: an accepted take_intent is on an existing intent that is not Filled,
\* with amount <= src_amount - filled_amount; it adds amount to filled_amount,
\* makes the intent Filled exactly when filled_amount reaches src_amount, and
\* stores under a fresh id, which it returns, a sub-intent in Taken with taker
\* = caller; no expectation is recorded, no request dispatched and no balance
\* changed. A rejected one changes no state. The call is accepted exactly when
\* the intent exists, is not Filled and amount <= its remaining amount.
C24_TakeIntent ==
    [][/\ last'.op = "take_intent" /\ last'.ok =>
            LET sub_id == last'.id
                sub == sub_intents'[sub_id]
                pid == sub.parent_intent_id
                intent == intents[pid]
                filled == intent.filled_amount + sub.amount
            IN /\ sub_id = next_id /\ sub_id \notin Allocated /\ next_id' = next_id + 1
               /\ sub_id \in DOMAIN sub_intents'
               /\ sub_intents' = Insert(sub_intents, sub_id, sub)
               /\ sub.status = "Taken" /\ sub.taker = last'.caller
               /\ pid \in DOMAIN intents /\ intent.status # "Filled"
               /\ sub.amount <= intent.src_amount - intent.filled_amount
               /\ intents' = Insert(intents, pid,
                                    [intent EXCEPT !.filled_amount = filled,
                                                   !.status = IF filled = intent.src_amount
                                                              THEN "Filled" ELSE "Open"])
               /\ UNCHANGED <<balances, transition_expectations, pending_withdrawals,
                              inflight>>
       /\ last'.op = "take_intent" /\ ~last'.ok => UNCHANGED <<contract, inflight>>
       /\ \A taker \in Solvers, i \in (DOMAIN intents) \cup {next_id},
             amt \in FillAmounts \cup {0} :
            (~RejectedCall /\ next_id < MaxId) =>
              ((ENABLED (take_intent(taker, i, amt) /\ last'.ok))
                 <=> (/\ i \in DOMAIN intents
                      /\ intents[i].status # "Filled"
                      /\ amt <= intents[i].src_amount - intents[i].filled_amount))]_vars

\* A take of the rest of a partly filled intent made it Filled.
C24_Witness ==
    /\ last.op = "take_intent" /\ last.ok
    /\ LET sub == sub_intents[last.id]
           intent == intents[sub.parent_intent_id]
       IN /\ intent.status = "Filled"
          /\ 0 < sub.amount /\ sub.amount < intent.src_amount

\* The stored intents that a step leaves in place, changed by no operation
\* other than those of ops, and by these in filled_amount and status only.
IntentsChangedOnlyBy(ops) ==
    \A id \in DOMAIN intents :
       /\ id \in DOMAIN intents'
       /\ intents'[id] # intents[id] =>
             /\ last'.op \in ops /\ last'.ok
             /\ intents'[id] = [intents[id] EXCEPT !.filled_amount = intents'[id].filled_amount,
                                                   !.status = intents'[id].status]

\* C25, as stated: after its creation an intent is never removed, and no
\* operation or callback other than batch_match_intents changes any field of
\* it.
C25_OnlyBatchChangesIntents ==
    [][IntentsChangedOnlyBy({"batch_match_intents"})]_vars

\* C25: after its creation an intent is never removed, and no operation or
\* callback other than take_intent and batch_match_intents changes any field
\* of it; these two change its filled_amount and status only.
C25_OnlyMatchingChangesIntents ==
    [][IntentsChangedOnlyBy({"take_intent", "batch_match_intents"})]_vars

\* take_intent filled part of an existing intent.
C25_Witness ==
    /\ last.op = "take_intent" /\ last.ok
    /\ LET sub == sub_intents[last.id]
       IN /\ sub.amount > 0
          /\ intents[sub.parent_intent_id].filled_amount = sub.amount
          /\ intents[sub.parent_intent_id].status = "Open"

\* Batches of every length from none to seven legs: the two-leg batches of
\* the solver's legs, and batches of one leg repeated, which is a fill of
\* nothing of a stored intent or a fill of an intent that does not exist.
BatchLengths == 0 .. 7
ZeroLegInputs == {MatchParams(i, 0, 0, c) : i \in DOMAIN intents, c \in ChainInputs}
MissingLegInputs == {MatchParams(next_id, 1, 1, c) : c \in ChainInputs}
BatchOf(n, m) == [i \in 1 .. n |-> m]
BatchInputs ==
    {<<m1, m2>> : m1 \in LegInputs, m2 \in LegInputs}
    \cup {BatchOf(n, m) : n \in BatchLengths, m \in ZeroLegInputs \cup MissingLegInputs}
BatchMatchIntentsOfAnyLength ==
    \E matches \in BatchInputs, solver \in Solvers : batch_match_intents(solver, matches)

NextBatchLength ==
    \/ Running /\ DepositFor
    \/ Running /\ MakeIntentAny
    \/ Running /\ BatchMatchIntentsOfAnyLength

SpecBatchLength == Init /\ [][NextBatchLength]_vars

\* C26: an accepted batch_match_intents has 2 to 6 legs and dispatches one
\* signer request per leg, so never more than 6. A batch of fewer than 2 or
\* more than 6 legs is never accepted: it is rejected for its length before
\* its first leg is looked at, whatever the legs are, with no state change and
\* no signer request. Six legs that pass the checks (six fills of nothing of
\* an intent with a remainder) are accepted.
C26_BatchLength ==
    /\ [](~RejectedCall =>
            \A matches \in BatchInputs, solver \in Solvers :
               /\ Len(matches) < 2 =>
                     /\ ~ENABLED (batch_match_intents(solver, matches) /\ last'.ok)
                     /\ ENABLED (batch_match_intents(solver, matches)
                                 /\ last'.reason = "too_few")
               /\ Len(matches) > 6 =>
                     /\ ~ENABLED (batch_match_intents(solver, matches) /\ last'.ok)
                     /\ ENABLED (batch_match_intents(solver, matches)
                                 /\ last'.reason = "too_many")
               /\ (/\ Len(matches) = 6
                   /\ matches[1] \in ZeroLegInputs
                   /\ intents[matches[1].intent_id].status = "Open"
                   /\ intents[matches[1].intent_id].filled_amount
                         < intents[matches[1].intent_id].src_amount) =>
                     LET w == RunBatch(Working(balances, intents, sub_intents,
                                               transition_expectations, next_id),
                                       matches, solver, overflow_checks)
                     IN ~w.panic /\ Len(w.sub_ids) = 6)
    /\ [][/\ last'.op = "batch_match_intents" /\ last'.ok =>
               /\ Len(last'.matches) \in 2 .. 6
               /\ InFlightCount' = InFlightCount + Len(last'.matches)
               /\ InFlightCount' - InFlightCount <= 6
          /\ last'.op = "batch_match_intents" /\ last'.reason \in {"too_few", "too_many"} =>
               /\ ~last'.ok /\ last'.id = 0
               /\ UNCHANGED <<contract, inflight>>]_vars

\* A batch of seven legs was rejected for its length while intents are open.
C26_Witness ==
    /\ last.op = "batch_match_intents" /\ last.reason = "too_many"
    /\ \E i \in DOMAIN intents : intents[i].status = "Open"

\* The ledger and the batch under two spellings of one asset: deposits, intents
\* and withdrawals that name "eth" where others name "ETH".
SpelledDepositInputs ==
    {[user |-> "alice", asset |-> "eth", amount |-> 2],
     [user |-> "alice", asset |-> "ETH", amount |-> 1],
     [user |-> "bob", asset |-> "SOL", amount |-> 1]}
SpelledIntentInputs ==
    {[maker |-> "alice", src_asset |-> "ETH", src_amount |-> 1, dst_asset |-> "SOL", dst_amount |-> 1],
     [maker |-> "alice", src_asset |-> "eth", src_amount |-> 1, dst_asset |-> "SOL", dst_amount |-> 1],
     [maker |-> "bob", src_asset |-> "SOL", src_amount |-> 1, dst_asset |-> "eth", dst_amount |-> 1]}
SpelledWithdrawInputs ==
    {[user |-> "alice", asset |-> "ETH", amount |-> 1],
     [user |-> "alice", asset |-> "eth", amount |-> 1]}
DepositForSpelled ==
    \E d \in SpelledDepositInputs : deposit_for(Owner, d.user, d.asset, d.amount)
MakeIntentSpelled ==
    \E t \in SpelledIntentInputs :
       make_intent(t.maker, t.src_asset, t.src_amount, t.dst_asset, t.dst_amount)
WithdrawSpelled ==
    \E w \in SpelledWithdrawInputs, c \in ChainInputs : withdraw(w.user, w.asset, w.amount, c)

NextSpelling ==
    \/ Running /\ DepositForSpelled
    \/ Running /\ MakeIntentSpelled
    \/ Running /\ BatchMatchIntents
    \/ Running /\ WithdrawSpelled
    \/ Running /\ OnSignedDelivered

SpecSpelling == Init /\ [][NextSpelling]_vars

\* ASCII case-folding of an asset symbol.
Fold(asset) == IF asset = "eth" THEN "ETH" ELSE asset

\* C27: asset symbols are compared up to case. A user's balance is the same
\* under every spelling of an asset, and make_intent and withdraw are accepted
\* under one spelling when the balance credited under another spelling of the
\* asset suffices.
C27_AssetsFoldCase ==
    /\ [](\A u \in DOMAIN balances : \A a, b \in Assets :
             Fold(a) = Fold(b) => get_balance(balances, u, a) = get_balance(balances, u, b))
    /\ [][/\ \A t \in SpelledIntentInputs :
               (/\ ~RejectedCall /\ next_id < MaxId
                /\ \E a \in Assets : /\ Fold(a) = Fold(t.src_asset)
                                     /\ get_balance(balances, t.maker, a) >= t.src_amount) =>
                  ENABLED (make_intent(t.maker, t.src_asset, t.src_amount, t.dst_asset,
                                       t.dst_amount) /\ last'.ok)
          /\ \A w \in SpelledWithdrawInputs, c \in ChainInputs :
               (/\ ~RejectedCall /\ next_id < MaxId
                /\ \E a \in Assets : /\ Fold(a) = Fold(w.asset)
                                     /\ get_balance(balances, w.user, a) >= w.amount) =>
                  ENABLED (withdraw(w.user, w.asset, w.amount, c) /\ last'.ok)]_vars

\* The deposits by themselves: the owner's and another account's deposit_for,
\* MPC deposits with the memo of the deposit and with another one, their
\* callbacks, and withdrawals with their callbacks.
MpcDepositInputsOfAnyAmount == DepositInputs \cup MpcDepositInputs
VerifyMpcDepositOfAnyAmount ==
    \E d \in MpcDepositInputsOfAnyAmount :
       \E memo \in {DepositMemo(d.user, d.asset), DepositMemo(d.asset, d.user)} :
          verify_mpc_deposit(d.user, d.asset, d.amount, memo)

NextDeposits ==
    \/ Running /\ DepositFor
    \/ Running /\ VerifyMpcDepositOfAnyAmount
    \/ Running /\ OnMpcDepositVerified
    \/ Running /\ Withdraw
    \/ Running /\ OnSignedDelivered

SpecDeposits == Init /\ [][NextDeposits]_vars

\* What a step credits to (user, asset): amount there, nothing elsewhere.
Credits(user, asset, amount) ==
    /\ user \in DOMAIN balances'
    /\ \A u \in Accounts, a \in Assets :
          get_balance(balances', u, a)
             = get_balance(balances, u, a) + (IF u = user /\ a = asset THEN amount ELSE 0)

\* C28: verify_mpc_deposit is accepted exactly when its memo is
\* "mpc:deposit:<user>:<asset>"; accepted, it dispatches one verification
\* request and changes no state; rejected, it dispatches nothing.
\* on_mpc_deposit_verified with Ok(true) adds exactly amount to balance(user,
\* asset) and changes nothing else; with Ok(false) or a callback error it
\* credits nothing and changes no state.
C28_MpcDeposit ==
    [][/\ last'.op = "verify_mpc_deposit" /\ last'.ok =>
            /\ UNCHANGED contract
            /\ \E r \in BagToSet(inflight') :
                  r.kind = "deposit" /\ inflight' = Dispatch(inflight, r)
       /\ last'.op = "verify_mpc_deposit" /\ ~last'.ok => UNCHANGED <<contract, inflight>>
       /\ \A d \in MpcDepositInputsOfAnyAmount :
            \A memo \in {<<"mpc:deposit:", d.user, ":", d.asset>>,
                         <<"mpc:deposit:", d.asset, ":", d.user>>,
                         <<"sub:", 0>>} :
               (~RejectedCall /\ deposits < MaxDeposits) =>
                  ((ENABLED (verify_mpc_deposit(d.user, d.asset, d.amount, memo) /\ last'.ok))
                     <=> memo = <<"mpc:deposit:", d.user, ":", d.asset>>)
       /\ last'.op = "on_mpc_deposit_verified" =>
            \E r \in BagToSet(inflight) :
               /\ r.kind = "deposit" /\ inflight' = Deliver(inflight, r)
               /\ UNCHANGED <<intents, sub_intents, transition_expectations,
                              pending_withdrawals, next_id>>
               /\ IF last'.result = "OkTrue"
                  THEN last'.ok /\ Credits(r.user, r.asset, r.amount)
                  ELSE ~last'.ok /\ UNCHANGED balances]_vars

\* C29: deposit_for is accepted exactly when the caller is the owner; accepted,
\* it increases balance(user, asset) by exactly amount, creating the user's
\* record on first use, and leaves every other (user, asset) pair and all
\* other state unchanged; rejected, it changes nothing. get_balance is 0 for a
\* user with no record and for an asset never credited to a user.
C29_DepositFor ==
    /\ [](/\ \A u \in Accounts \ DOMAIN balances, a \in Assets : get_balance(balances, u, a) = 0
          /\ deposits = 0 => \A u \in Accounts, a \in Assets : get_balance(balances, u, a) = 0
          /\ get_balance(balances, "bob", "ETH") = 0
          /\ get_balance(balances, "alice", "SOL") = 0)
    /\ [][/\ last'.op = "deposit_for" /\ last'.ok =>
               /\ last'.caller = Owner
               /\ \E d \in DepositInputs : Credits(d.user, d.asset, d.amount)
               /\ UNCHANGED <<intents, sub_intents, transition_expectations,
                              pending_withdrawals, next_id, inflight>>
          /\ last'.op = "deposit_for" /\ ~last'.ok => UNCHANGED <<contract, inflight>>
          /\ \A d \in DepositInputs, c \in {Owner, "bob"} :
               (~RejectedCall /\ deposits < MaxDeposits) =>
                  ((ENABLED (deposit_for(c, d.user, d.asset, d.amount) /\ last'.ok))
                     <=> c = Owner)]_vars

\* ------------------------------------------------------- get_open_intents

U64Max == Pow2(IndexBits) - 1
\* x as u64: the low bits.
AsU64(x) == x % Pow2(IndexBits)
\* from_index + limit in u64.
AddU64(a, b, checks) ==
    IF a + b <= U64Max THEN Value(a + b)
    ELSE IF checks THEN Panic ELSE Value((a + b) % Pow2(IndexBits))

\* keys_as_vector: the ids of the stored intents in the order of insertion,
\* which is the order of the ids, since ids grow and no intent is removed.
RECURSIVE Ascending(_)
Ascending(ids) ==
    IF ids = {} THEN <<>>
    ELSE LET least == CHOOSE x \in ids : \A y \in ids : x <= y
         IN <<least>> \o Ascending(ids \ {least})
keys_as_vector == Ascending(DOMAIN intents)

IsOpen(id) == intents[id].status = "Open"
\* The ids at the 0-based positions first .. last - 1 of keys.
Positions(keys, first, end) == SubSeq(keys, first + 1, end)

\* The ids of the intents get_open_intents returns, in its order.
get_open_intents(from_index, limit, checks) ==
    LET from == AsU64(from_index)
        keys == keys_as_vector
        sum == AddU64(from, limit, checks)
    IN IF sum.panic THEN [panic |-> TRUE, val |-> <<>>]
       ELSE LET end == IF sum.val < Len(keys) THEN sum.val ELSE Len(keys)
            IN Value(SelectSeq(Positions(keys, from, end), IsOpen))

\* The views asked for: from_index is a U128, limit a u64.
FromIndexInputs == (0 .. MaxId) \cup {U64Max, U64Max + 1, U64Max + 2}
LimitInputs == (0 .. 3) \cup {U64Max}
View(from_index, limit, returned) ==
    <<[from_index |-> from_index, limit |-> limit, returned |-> returned]>>
GetOpenIntents ==
    /\ \E from_index \in FromIndexInputs, limit \in LimitInputs :
          LET r == get_open_intents(from_index, limit, overflow_checks)
          IN last' = Outcome("get_open_intents", ~r.panic, "-", NoId, "-", "-",
                             View(from_index, limit, r.val))
    /\ UNCHANGED <<contract, inflight, overflow_checks, finalized_heights, origin, deposits, ledger_supply>>

\* The intents and the views of them; a view is not continued, since it
\* leaves the contract as it was.
Calling == Running /\ last.op # "get_open_intents"
NextOpenIntents ==
    \/ Calling /\ DepositFor
    \/ Calling /\ MakeIntentAny
    \/ Calling /\ TakeIntentAny
    \/ Calling /\ GetOpenIntents

SpecOpenIntents == Init /\ [][NextOpenIntents]_vars

\* The Open intents at the positions from_index .. from_index + limit - 1 of
\* the insertion order, clipped to the number of intents.
OpenInWindow(from_index, limit) ==
    LET keys == keys_as_vector
        end == IF from_index + limit < Len(keys) THEN from_index + limit ELSE Len(keys)
    IN SelectSeq(Positions(keys, from_index, end), IsOpen)

\* The pages of size k from position from on, one after the other.
RECURSIVE Pages(_, _)
Pages(from, k) ==
    IF from >= Len(keys_as_vector) THEN <<>>
    ELSE get_open_intents(from, k, overflow_checks).val \o Pages(from + k, k)

\* C30: get_open_intents(from_index, limit) returns, in insertion order,
\* exactly the Open intents at the positions from_index .. from_index + limit
\* - 1, clipped to the number of intents: never a non-Open intent, never more
\* than limit; and the pages of size k from 0 on list every Open intent once.
C30_GetOpenIntents ==
    /\ last.op = "get_open_intents" =>
          LET view == last.matches[1]
          IN /\ last.ok
             /\ view.returned = OpenInWindow(view.from_index, view.limit)
             /\ Len(view.returned) <= view.limit
             /\ \A i \in 1 .. Len(view.returned) : IsOpen(view.returned[i])
    /\ \A k \in LimitInputs \ {0} :
          Pages(0, k) = SelectSeq(keys_as_vector, IsOpen)

\* ------------------------------------------------------------ light client

LightClientOwner == "owner"

\* set_finalized_height: the owner's only; the height is a u64.
set_finalized_height(caller, chain_type, finalized_height) ==
    /\ LET ok == caller = LightClientOwner
       IN /\ finalized_heights' =
                 Persist(ok, finalized_heights,
                         Insert(finalized_heights, chain_type, finalized_height))
          /\ last' = IF ok
                     THEN Outcome("set_finalized_height", TRUE, caller, NoId, "-", "-", NoMatches)
                     ELSE Rejected("set_finalized_height", "not_owner")
    /\ UNCHANGED <<contract, inflight, overflow_checks, origin, deposits, ledger_supply>>

\* get_finalized_height: 0 for a chain never set.
get_finalized_height(chain_type) ==
    IF chain_type \in DOMAIN finalized_heights THEN finalized_heights[chain_type] ELSE 0

\* proof_data as submitted: the JSON of a PaymentProof, whose block_height is
\* a number that may not fit u64, or bytes that are no such JSON.
ProofJson(chain_type, tx_hash, recipient, asset, amount, memo, block_height, inclusion_proof) ==
    [well_formed |-> TRUE, chain_type |-> chain_type, tx_hash |-> tx_hash,
     recipient |-> recipient, asset |-> asset, amount |-> amount, memo |-> memo,
     block_height |-> block_height, inclusion_proof |-> inclusion_proof]
Malformed ==
    [well_formed |-> FALSE, chain_type |-> "-", tx_hash |-> "-", recipient |-> "-",
     asset |-> "-", amount |-> 0, memo |-> <<"-", 0>>, block_height |-> 0,
     inclusion_proof |-> <<>>]
\* serde_json::from_slice: an error for bytes that are no PaymentProof and for
\* a block_height beyond u64.
from_slice(proof_data) ==
    IF ~proof_data.well_formed THEN [ok |-> FALSE, value |-> Malformed]
    ELSE IF proof_data.block_height > U64Max THEN [ok |-> FALSE, value |-> Malformed]
    ELSE [ok |-> TRUE, value |-> proof_data]

\* str::eq_ignore_ascii_case on the asset symbols in use.
eq_ignore_ascii_case(a, b) ==
    (IF a = "eth" THEN "ETH" ELSE a) = (IF b = "eth" THEN "ETH" ELSE b)

\* The height of a proof: 0 < block_height <= finalized_height is what a
\* finalized block has; block_height > finalized_height is the only test of
\* it in the source.
HeightFinalizedAndPositive(block_height, finalized_height) ==
    0 < block_height /\ block_height <= finalized_height
HeightFinalized(block_height, finalized_height) ==
    block_height <= finalized_height

\* The checks the two verifications share, after the proof parsed.
ProofMatches(proof, chain_type, expected_recipient, expected_asset, expected_amount, expected_memo) ==
    /\ proof.chain_type = chain_type
    /\ proof.recipient = expected_recipient
    /\ eq_ignore_ascii_case(proof.asset, expected_asset)
    /\ proof.amount = expected_amount
    /\ proof.memo = expected_memo
    /\ proof.inclusion_proof # <<>>
    /\ get_finalized_height(proof.chain_type) # 0
    /\ HeightFinalized(proof.block_height, get_finalized_height(proof.chain_type))

verify_payment_proof(chain_type, proof_data, expected_recipient, expected_asset, expected_amount, expected_memo) ==
    LET parsed == from_slice(proof_data)
    IN IF ~parsed.ok THEN FALSE
       ELSE ProofMatches(parsed.value, chain_type, expected_recipient, expected_asset,
                         expected_amount, expected_memo)

verify_transition_proof(chain_type, proof_data, expected_recipient, expected_asset, expected_amount, expected_memo, expected_tx_hash) ==
    LET parsed == from_slice(proof_data)
    IN IF ~parsed.ok THEN FALSE
       ELSE /\ parsed.value.tx_hash = expected_tx_hash
            /\ ProofMatches(parsed.value, chain_type, expected_recipient, expected_asset,
                            expected_amount, expected_memo)

\* The heights set, the proofs submitted and what the orderbook expects.
ProofChains == {"ETH", "SOL"}
HeightInputs == {0, 1, 2, U64Max}
BlockHeightInputs == {0, 1, 2, U64Max, U64Max + 1}
TxHashInputs == {"0xa", "0xb"}
RecipientInputs == {"maker-address", "other-address"}
ProofAssetInputs == {"ETH", "eth", "SOL"}
ProofAmountInputs == {1, 2}
ProofMemoInputs == {<<"sub:", 1>>, <<"sub:", 2>>}
InclusionProofInputs == {<<>>, <<"node">>}
ProofInputs ==
    {Malformed}
    \cup {ProofJson(c, t, r, a, n, m, h, i) :
            c \in ProofChains, t \in TxHashInputs, r \in RecipientInputs,
            a \in ProofAssetInputs, n \in ProofAmountInputs, m \in ProofMemoInputs,
            h \in BlockHeightInputs, i \in InclusionProofInputs}
Expected(chain_type, recipient, asset, amount, memo, tx_hash) ==
    [chain_type |-> chain_type, recipient |-> recipient, asset |-> asset,
     amount |-> amount, memo |-> memo, tx_hash |-> tx_hash]
ExpectedInputs ==
    {Expected("ETH", "maker-address", a, 1, <<"sub:", 1>>, "0xa") : a \in {"ETH", "eth"}}

Verification(proof_data, expected) == <<[proof_data |-> proof_data, expected |-> expected]>>
Answer(b) == IF b THEN "true" ELSE "false"

SetFinalizedHeight ==
    \E caller \in {LightClientOwner, "bob"}, c \in ProofChains, h \in HeightInputs :
       set_finalized_height(caller, c, h)
VerifyPaymentProof ==
    /\ \E p \in ProofInputs, e \in ExpectedInputs :
          last' = Outcome("verify_payment_proof", TRUE, "-", NoId,
                          Answer(verify_payment_proof(e.chain_type, p, e.recipient, e.asset,
                                                      e.amount, e.memo)),
                          "-", Verification(p, e))
    /\ UNCHANGED <<contract, inflight, overflow_checks, finalized_heights, origin, deposits, ledger_supply>>
VerifyTransitionProof ==
    /\ \E p \in ProofInputs, e \in ExpectedInputs :
          last' = Outcome("verify_transition_proof", TRUE, "-", NoId,
                          Answer(verify_transition_proof(e.chain_type, p, e.recipient,
                                                         e.asset, e.amount, e.memo,
                                                         e.tx_hash)),
                          "-", Verification(p, e))
    /\ UNCHANGED <<contract, inflight, overflow_checks, finalized_heights, origin, deposits, ledger_supply>>

\* The light client by itself; a verification is a view and is not continued.
Verified == last.op \in {"verify_payment_proof", "verify_transition_proof"}
NextLightClient ==
    \/ Running /\ ~Verified /\ SetFinalizedHeight
    \/ Running /\ ~Verified /\ VerifyPaymentProof
    \/ Running /\ ~Verified /\ VerifyTransitionProof

SpecLightClient == Init /\ [][NextLightClient]_vars

\* C31: verify_payment_proof and verify_transition_proof answer true exactly
\* when the proof parses, its chain_type, recipient, amount and memo (and
\* tx_hash for a transition) equal the expected ones, its asset equals the
\* expected one up to ASCII case, its inclusion_proof is not empty, and 0 <
\* block_height <= finalized_height of the chain, an unset height being 0.
C31_LightClientVerifies ==
    Verified =>
       LET p == last.matches[1].proof_data
           e == last.matches[1].expected
       IN (last.result = "true") <=>
             /\ p.well_formed
             /\ p.block_height <= U64Max
             /\ p.chain_type = e.chain_type
             /\ p.recipient = e.recipient
             /\ p.amount = e.amount
             /\ p.memo = e.memo
             /\ last.op = "verify_transition_proof" => p.tx_hash = e.tx_hash
             /\ Fold(p.asset) = Fold(e.asset)
             /\ p.inclusion_proof # <<>>
             /\ HeightFinalizedAndPositive(
                   p.block_height,
                   IF p.chain_type \in DOMAIN finalized_heights
                   THEN finalized_heights[p.chain_type] ELSE 0)

\* The callback on_signed with all its arguments and its log: the payload
\* bound into the callback is any of PayloadInputs.
PayloadInputs == {<<0, 171>>, <<255, 16>>}
Logged(chain_type, payload, events) ==
    <<[chain_type |-> chain_type, payload |-> payload, events |-> events]>>
OnSignedLogged ==
    \E r \in Requests, payload \in PayloadInputs, res \in SignResults :
       /\ r.kind = "sign" /\ BagIn(r, inflight)
       /\ inflight' = Deliver(inflight, r)
       /\ OnSignedStepLogging(r.id, res,
                              Logged(r.chain_type, payload,
                                     SignatureEvents(r.id, r.chain_type, payload, res)))

NextSigned ==
    \/ DepositFor /\ Accepted
    \/ MakeIntent /\ Accepted
    \/ TakeIntent /\ Accepted
    \/ RetrySettlement /\ Accepted
    \/ SubmitPaymentProof /\ Accepted
    \/ Withdraw /\ Accepted
    \/ OnProofVerified
    \/ OnSignedLogged

SpecSigned == Init /\ [][NextSigned]_vars

\* The bytes a hex string stands for.
HexValue(d) == CHOOSE n \in 0 .. 15 : HexDigits[n + 1] = d
RECURSIVE HexDecode(_)
HexDecode(digits) ==
    IF digits = <<>> THEN <<>>
    ELSE <<16 * HexValue(digits[1]) + HexValue(digits[2])>> \o HexDecode(Tail(Tail(digits)))

\* C32: an on_signed callback that delivers a signer success logs exactly one
\* SignatureEvent, whose sub_intent_id is the callback's id, whose chain_type
\* is the callback's, whose payload is the hex of the callback's payload and
\* whose transition_memo is "transition:sub:<id>"; one that delivers a signer
\* failure logs none.
C32_OneSignatureEvent ==
    [][last'.op = "on_signed" /\ last'.matches # NoMatches =>
         LET call == last'.matches[1]
         IN IF last'.result = "Ok"
            THEN /\ last'.ok
                 /\ Len(call.events) = 1
                 /\ call.events[1].sub_intent_id = last'.id
                 /\ call.events[1].chain_type = call.chain_type
                 /\ Len(call.events[1].payload) = 2 * Len(call.payload)
                 /\ HexDecode(call.events[1].payload) = call.payload
                 /\ call.events[1].transition_memo = <<"transition:sub:", last'.id>>
            ELSE call.events = <<>>]_vars

\* A signer failure for a withdrawal left no event, after a signer success
\* for a sub-intent left one.
C32_Witness ==
    /\ last.op = "on_signed" /\ last.result = "Err" /\ last.ok
    /\ last.matches[1].events = <<>>
    /\ \E id \in DOMAIN sub_intents : sub_intents[id].status = "Settled"


\* ------------------------------------------------------------ the ledger

\* The exact sum of the values of a map over a set of its keys.
RECURSIVE SumOver(_, _)
SumOver(f, keys) ==
    IF keys = {} THEN 0
    ELSE LET k == CHOOSE x \in keys : TRUE
         IN f[k] + SumOver(f, keys \ {k})

\* What the ledger holds of an asset: the balances, the unfilled part of the
\* intents that sell it, and the pending withdrawals of it.
InBalances(asset) ==
    SumOver([u \in DOMAIN balances |-> get_balance(balances, u, asset)], DOMAIN balances)
InIntents(asset) ==
    SumOver([i \in DOMAIN intents |->
                IF intents[i].src_asset = asset
                THEN intents[i].src_amount - intents[i].filled_amount ELSE 0],
            DOMAIN intents)
InWithdrawals(asset) ==
    SumOver([w \in DOMAIN pending_withdrawals |->
                IF pending_withdrawals[w].asset = asset
                THEN pending_withdrawals[w].amount ELSE 0],
            DOMAIN pending_withdrawals)
Held(asset) == InBalances(asset) + InIntents(asset) + InWithdrawals(asset)

\* C33: the ledger never creates assets: of every asset, the balances, the
\* unfilled parts of the intents selling it and the pending withdrawals of it
\* sum to at most what deposit_for and the verified MPC deposits credited less
\* what the withdrawals whose signing succeeded removed.
C33_LedgerCreatesNothing ==
    \A a \in Assets : Held(a) <= ledger_supply[a]


\* C34: each id has at most one external request in flight, and a callback is
\* only delivered to an entity that waits for it: a signer request in flight
\* for a sub-intent finds it Verifying, a transition-verification request
\* finds it TransitionVerifying, and a signer request for a withdrawal id finds
\* its PendingWithdrawal.
C34_CallbacksAwaited ==
    /\ \A id \in 0 .. MaxId : InFlightFor(id) <= 1
    /\ \A r \in Requests :
          /\ (r.kind = "sign" /\ r.id \in DOMAIN sub_intents) =>
                sub_intents[r.id].status = "Verifying"
          /\ r.kind = "transition" =>
                r.id \in DOMAIN sub_intents /\ sub_intents[r.id].status = "TransitionVerifying"
          /\ (r.kind = "sign" /\ r.id \notin DOMAIN sub_intents) =>
                r.id \in DOMAIN pending_withdrawals

\* A withdrawal's signer request, a sub-intent's signer request and another
\* sub-intent's transition verification are in flight together.
C34_Witness ==
    /\ \E r \in Requests : r.kind = "sign" /\ r.id \in DOMAIN pending_withdrawals
    /\ \E r \in Requests : r.kind = "sign" /\ r.id \in DOMAIN sub_intents
    /\ \E r \in Requests : r.kind = "transition"


\* C35: retry_settlement is accepted only for a sub-intent that
\* batch_match_intents created and whose signer request failed, never for a
\* Taken sub-intent that take_intent created: the signer is asked to sign for a
\* take_intent sub-intent only by on_proof_verified on a valid payment proof,
\* so that it becomes Settled only after one.
C35_RetryOnlyAfterSignerFailure ==
    [][/\ (last'.op = "retry_settlement" /\ last'.ok) =>
             origin[last'.id] = "batch_match_intents"
       /\ \A id \in DOMAIN sub_intents :
             (origin[id] = "take_intent" /\ ~SignInFlight(id) /\ SignInFlight(id)') =>
                (last'.op = "on_proof_verified" /\ last'.result = "OkTrue")]_vars



\* The external deposits there are, one per user and asset, each submitted
\* through verify_mpc_deposit any number of times; nothing else credits or
\* debits a balance, so that a balance is what the deposit was credited.
ExternalDeposits ==
    {[user |-> u, asset |-> a, amount |-> IF a = "ETH" THEN 2 ELSE 1] :
        u \in Accounts, a \in Assets}
VerifyMpcDepositAgain ==
    \E d \in ExternalDeposits :
       verify_mpc_deposit(d.user, d.asset, d.amount, DepositMemo(d.user, d.asset))
NextReplay ==
    \/ VerifyMpcDepositAgain
    \/ OnMpcDepositVerified

SpecReplay == Init /\ [][NextReplay]_vars

\* C36: an external deposit is credited at most once: however often it is
\* submitted through verify_mpc_deposit and the light client answers true, the
\* user's balance holds at most its amount.
C36_DepositCreditedOnce ==
    \A d \in ExternalDeposits : get_balance(balances, d.user, d.asset) <= d.amount


\* ------------------------------------------------------- the price check

\* The price check by itself, over every get_amount and fill_amount of a leg
\* and every src_amount and dst_amount of its intent.
Priced(m, intent) ==
    <<[get_amount |-> m.get_amount, src_amount |-> intent.src_amount,
       fill_amount |-> m.fill_amount, dst_amount |-> intent.dst_amount]>>
CheckPrice ==
    /\ last.op # "price_check"
    /\ \E get_amount \in 0 .. U128Max, src_amount \in 0 .. U128Max,
          fill_amount \in 0 .. U128Max, dst_amount \in 0 .. U128Max :
          LET m == MatchParams(0, fill_amount, get_amount, "ETH")
              intent == Intent("alice", "ETH", src_amount, "SOL", dst_amount)
          IN last' = Outcome("price_check", TRUE, "-", NoId,
                             PriceCheck(m, intent, overflow_checks), "-", Priced(m, intent))
    /\ UNCHANGED <<contract, inflight, overflow_checks, finalized_heights, origin, deposits,
                   ledger_supply>>

SpecPrice == Init /\ [][CheckPrice]_vars

\* C37: the price check of a batch leg decides the exact integer comparison
\* get_amount * src_amount >= fill_amount * dst_amount for all amounts of 128
\* bits: it passes only when the comparison holds and reports a price mismatch
\* only when it does not; where a product exceeds 128 bits the batch fails
\* instead, and nothing is decided on a wrapped product.
C37_PriceCheckExact ==
    last.op = "price_check" =>
       LET p == last.matches[1]
           exact == p.get_amount * p.src_amount >= p.fill_amount * p.dst_amount
           wide == \/ p.get_amount * p.src_amount > U128Max
                   \/ p.fill_amount * p.dst_amount > U128Max
       IN /\ last.result = "ok" => exact
          /\ last.result = "price_mismatch" => ~exact
          /\ last.result = "overflow" => wide


\* C38: Completed is terminal: once a sub-intent is Completed no operation and
\* no callback changes its status, and no TransitionExpectation is recorded
\* for it again.
C38_CompletedIsTerminal ==
    [][\A id \in DOMAIN sub_intents :
          sub_intents[id].status = "Completed" =>
             /\ id \in DOMAIN sub_intents'
             /\ sub_intents'[id].status = "Completed"
             /\ id \notin DOMAIN transition_expectations']_vars


\* A sub-intent is Completed while retry_settlement is accepted for another
\* sub-intent of the same intent, which records a TransitionExpectation.
C38_Witness ==
    /\ last.op = "retry_settlement" /\ last.ok
    /\ \E id \in DOMAIN sub_intents :
          /\ sub_intents[id].status = "Completed"
          /\ id # last.id
          /\ sub_intents[id].parent_intent_id = sub_intents[last.id].parent_intent_id
          /\ last.id \in DOMAIN transition_expectations


\* C39: balances change only through deposit_for, on_mpc_deposit_verified on
\* a valid proof, make_intent, the maker credit of batch_match_intents,
\* withdraw and the refund of a withdrawal in on_signed; take_intent,
\* retry_settlement, submit_payment_proof, on_proof_verified,
\* verify_transition_completion, on_transition_verified and on_signed on a
\* sub-intent id leave every balance and every PendingWithdrawal unchanged.
C39_BalancesFrame ==
    [][/\ balances' # balances =>
            \/ last'.op \in {"deposit_for", "make_intent", "batch_match_intents", "withdraw"}
            \/ last'.op = "on_mpc_deposit_verified" /\ last'.result = "OkTrue"
            \/ /\ last'.op = "on_signed" /\ last'.result = "Err"
               /\ last'.id \in DOMAIN pending_withdrawals
       /\ (\/ last'.op \in {"take_intent", "retry_settlement", "submit_payment_proof",
                           "on_proof_verified", "verify_transition_completion",
                           "on_transition_verified"}
           \/ last'.op = "on_signed" /\ last'.id \in DOMAIN sub_intents) =>
            /\ balances' = balances
            /\ pending_withdrawals' = pending_withdrawals]_vars

\* A sub-intent's signer failure arrived while a withdrawal was pending and a
\* balance was credited by an MPC deposit: the withdrawal and the balances are
\* as they were.
C39_Witness ==
    /\ last.op = "on_signed" /\ last.result = "Err"
    /\ last.id \in DOMAIN sub_intents
    /\ pending_withdrawals # EmptyMap
    /\ \E u \in DOMAIN balances, a \in Assets : balances[u][a] > 0


\* ------------------------------------------------------------- the relayer

\* to_string of an integer, and the parsing of a decimal string.
Digits == <<"0", "1", "2", "3", "4", "5", "6", "7", "8", "9">>
RECURSIVE to_string(_)
to_string(n) ==
    IF n < 10 THEN <<Digits[n + 1]>>
    ELSE to_string(n \div 10) \o <<Digits[(n % 10) + 1]>>
DigitValue(d) == CHOOSE n \in 0 .. 9 : Digits[n + 1] = d
RECURSIVE parse(_)
parse(s) ==
    IF s = <<>> THEN 0
    ELSE 10 * parse(SubSeq(s, 1, Len(s) - 1)) + DigitValue(s[Len(s)])

\* The relayer's MatchParam, as it is serialized: three decimal strings.
MatchParam(intent_id, fill_amount, get_amount) ==
    [intent_id |-> to_string(intent_id), fill_amount |-> to_string(fill_amount),
     get_amount |-> to_string(get_amount)]

is_open(id) == intents[id].status = "Open"
is_opposite_pair(a, b) ==
    /\ eq_ignore_ascii_case(intents[a].src_asset, intents[b].dst_asset)
    /\ eq_ignore_ascii_case(intents[a].dst_asset, intents[b].src_asset)
is_target_pair(i, asset_a, asset_b) ==
    \/ /\ eq_ignore_ascii_case(intents[i].src_asset, asset_a)
       /\ eq_ignore_ascii_case(intents[i].dst_asset, asset_b)
    \/ /\ eq_ignore_ascii_case(intents[i].src_asset, asset_b)
       /\ eq_ignore_ascii_case(intents[i].dst_asset, asset_a)
saturating_sub(a, b) == IF a >= b THEN a - b ELSE 0
Remain(i) == saturating_sub(intents[i].src_amount, intents[i].filled_amount)
exact_mirror(i, j) ==
    Remain(i) = intents[j].dst_amount /\ Remain(j) = intents[i].dst_amount

\* `for j in intents`: the first j from position k on that pairs with i, or
\* NoId.
RECURSIVE MirrorOf(_, _, _, _)
MirrorOf(snapshot, i, used, k) ==
    IF k > Len(snapshot) THEN NoId
    ELSE LET j == snapshot[k]
         IN IF \/ i = j \/ j \in used \/ ~is_open(j)
               \/ ~is_opposite_pair(i, j) \/ ~exact_mirror(i, j)
            THEN MirrorOf(snapshot, i, used, k + 1)
            ELSE j

\* `for i in intents`, from position n on, with the used set and out so far.
RECURSIVE MirrorMatches(_, _, _, _, _, _)
MirrorMatches(snapshot, asset_a, asset_b, used, out, n) ==
    IF n > Len(snapshot) THEN out
    ELSE LET i == snapshot[n]
             j == MirrorOf(snapshot, i, used, 1)
         IN IF i \in used \/ ~is_open(i) \/ ~is_target_pair(i, asset_a, asset_b) \/ j = NoId
            THEN MirrorMatches(snapshot, asset_a, asset_b, used, out, n + 1)
            ELSE MirrorMatches(snapshot, asset_a, asset_b, used \cup {i, j},
                               out \o <<MatchParam(i, Remain(i), Remain(j)),
                                        MatchParam(j, Remain(j), Remain(i))>>,
                               n + 1)

\* The ids of a snapshot of intents stand for the intents.
build_mirror_matches(snapshot, asset_a, asset_b) ==
    MirrorMatches(snapshot, asset_a, asset_b, {}, <<>>, 1)

\* The contract's deserialization of one element of `matches: Vec<MatchParams>`:
\* every field of MatchParams is required, the U128s are decimal strings.
MatchParamsFields ==
    {"intent_id", "fill_amount", "get_amount", "payload", "path", "transition_chain_type"}
MatchParamsFromJson(entry) ==
    IF ~(MatchParamsFields \subseteq DOMAIN entry) THEN Panic
    ELSE IF \E f \in {"intent_id", "fill_amount", "get_amount"} : parse(entry[f]) > U128Max
         THEN Panic
         ELSE Value(MatchParams(parse(entry.intent_id), parse(entry.fill_amount),
                                parse(entry.get_amount), entry.transition_chain_type))

\* The call the relayer makes with the batch it built: the arguments are
\* deserialized, then the handler runs.
submit_batch_match(relayer_id, matches) ==
    /\ Len(matches) >= 2
    /\ LET args == [n \in 1 .. Len(matches) |-> MatchParamsFromJson(matches[n])]
       IN IF \E n \in 1 .. Len(matches) : args[n].panic
          THEN /\ last' = Outcome("batch_match_intents", FALSE, relayer_id, NoId, "-",
                                  "deserialize", matches)
               /\ UNCHANGED <<contract, inflight, overflow_checks, finalized_heights, origin,
                              deposits, ledger_supply>>
          ELSE batch_match_intents(relayer_id, [n \in 1 .. Len(matches) |-> args[n].val])

\* One round of the relayer: fetch_open_intents, build_mirror_matches on the
\* configured pair, and submit_batch_match when there are matches.
RelayerId == "relayer"
FetchLimit == U64Max
Relay ==
    LET fetched == get_open_intents(0, FetchLimit, overflow_checks)
        matches == build_mirror_matches(fetched.val, "SOL", "ETH")
    IN /\ ~fetched.panic
       /\ matches # <<>>
       /\ submit_batch_match(RelayerId, matches)

\* The makers' intents the relayer looks at: mirror pairs under one and under
\* two spellings of an asset, of small and of large amounts.
MirrorDepositInputs ==
    SpelledDepositInputs
    \cup {[user |-> "alice", asset |-> "ETH", amount |-> Pow2(AmountBits - 1)],
          [user |-> "bob", asset |-> "SOL", amount |-> Pow2(AmountBits - 1)]}
MirrorIntentInputs ==
    SpelledIntentInputs
    \cup {[maker |-> "alice", src_asset |-> "ETH", src_amount |-> Pow2(AmountBits - 1),
           dst_asset |-> "SOL", dst_amount |-> Pow2(AmountBits - 1)],
          [maker |-> "bob", src_asset |-> "SOL", src_amount |-> Pow2(AmountBits - 1),
           dst_asset |-> "ETH", dst_amount |-> Pow2(AmountBits - 1)],
          [maker |-> "bob", src_asset |-> "SOL", src_amount |-> 1,
           dst_asset |-> "ETH", dst_amount |-> 1]}
DepositForMirror ==
    \E d \in MirrorDepositInputs : deposit_for(Owner, d.user, d.asset, d.amount)
MakeIntentMirror ==
    \E t \in MirrorIntentInputs :
       make_intent(t.maker, t.src_asset, t.src_amount, t.dst_asset, t.dst_amount)

NextRelayer ==
    \/ DepositForMirror /\ Accepted
    \/ MakeIntentMirror /\ Accepted
    \/ TakeIntent /\ Accepted
    \/ Relay

SpecRelayer == Init /\ [][NextRelayer]_vars

\* C40: every non-empty batch the relayer's build_mirror_matches builds from a
\* snapshot of the intents is accepted by batch_match_intents on that
\* snapshot.
C40_MirrorBatchesAccepted ==
    [][Relay => last'.ok]_vars

====
